---- MODULE Spec2Model ----
(***************************************************************************)
(* gopulse: the bounded goroutine pool (pool/pool.go), the telemetry       *)
(* provider (providers: registry, TriggerEvent, TriggerSpan) and the       *)
(* mailbox handler (mailbox: Mailer).                                      *)
(*                                                                         *)
(* Spec      the pool alone, driven by client calls of StartWorkers,       *)
(*           Submit and Stop.                                              *)
(* ProviderSpec  the telemetry provider in either mode: AddHandlers,       *)
(*           RemoveHandlers and TriggerEvent calls, the workers of its     *)
(*           pool in concurrent mode.                                      *)
(* SyncSpec  the provider in synchronous mode (no pool).                   *)
(* SpanSpec  TriggerSpan calls on a provider in either mode.               *)
(* MailSpec  a Mailer registered with a provider in either mode, events    *)
(*           triggered and AssertReceived called by a test goroutine.      *)
(* LiveSpec  the pool when Stop is never called, with weak fairness on     *)
(*           every worker goroutine (the Go scheduler runs a runnable      *)
(*           goroutine eventually, and every job returns).                 *)
(* QueueSpec the pool alone, started, with the order in which jobs are     *)
(*           accepted and received recorded as history.                    *)
(* WaitSpec  a Mailer registered with a synchronous provider; a test       *)
(*           goroutine calls AssertReceive / RefuteReceive (one call,      *)
(*           with a timer on a clock of 50 ms periods) and RefuteReceived  *)
(*           while another goroutine triggers events.                      *)
(* WaitLiveSpec  WaitSpec with weak fairness on the steps of the waiting   *)
(*           call, of TriggerEvent and of the clock.                       *)
(* ReentrySpec  a provider in either mode whose handlers' callbacks call   *)
(*           AddHandlers, RemoveHandlers or TriggerEvent on it.            *)
(* ReentryLiveSpec  ReentrySpec with weak fairness on every goroutine.     *)
(* NoWorkerSpec  a provider in concurrent mode whose pool has no worker    *)
(*           (or one, to compare), with every buffer size.                 *)
(* AtomSpec  AddHandlers / RemoveHandlers run statement by statement on    *)
(*           two goroutines while TriggerEvent is called on a third.       *)
(* PredSpec  AssertReceived run statement by statement with predicates     *)
(*           that call TriggerEvent or AssertReceived themselves.          *)
(* PredLiveSpec  PredSpec with weak fairness on every goroutine.           *)
(***************************************************************************)
EXTENDS Integers, Sequences, FiniteSets, TLC

\* ---- bounds of the model ----
MaxWorkers == 2
MaxCap == 2
MaxTasks == 3
MaxCallers == 1
MaxList == 2
MaxCalls == 2
MaxTime == 1
MaxClock == 4

Workers == 1..MaxWorkers
Tasks == 1..MaxTasks
Callers == 1..MaxCallers
NoTask == 0

VARIABLES
    workers,    \* Pool.workers: the number of workers StartWorkers spawns
    capacity,   \* cap(Pool.jobs): workerChannelBuff given to NewPool
    cancelled,  \* Pool.ctx is done (cancel() was called)
    jobs,       \* Pool.jobs: the buffered channel, oldest first
    wg,         \* Pool.wg: the WaitGroup counter
    started,    \* StartWorkers has been called
    wpc,        \* position of each worker goroutine
    hand,       \* the job a worker goroutine holds (local variable job)
    status,     \* life cycle of each job handed to Submit
    result,     \* what Submit returned for the job
    runs,       \* how many times job() was entered
    stopPc,     \* position of the caller of Stop
    lateCall,   \* history: Submit was called after Stop had returned
    atCancel,   \* history: status of each job when cancel() was called
    concurrent, \* TelemetryProvider.config.AllowConcurrentExecution
    handlers,   \* TelemetryProvider.handlers: handler id -> handler
    lastOp,     \* history: what the latest registry call did for each id
    tpc,        \* position of each caller of TriggerEvent
    targs,      \* the arguments of the call: event, measurement, metadata
    tfuncs,     \* local eventFuncs of the call
    ti,         \* index of the loop in executeEventFuncs
    inv,        \* what each job / callback invocation stands for
    trace,      \* history: the TriggerEvent calls each caller has made
    spc,        \* position of each caller of TriggerSpan
    span,       \* arguments and locals of the TriggerSpan call
    mailbox,    \* Mailer.mailbox: event name -> logged MailData, in order
    mlog,       \* history: the deliveries to the Mailer, in order
    seen,       \* history: the last snapshot an assertion read, per name
    asserted,   \* the last AssertReceived call and what it returned
    now,        \* the monotonic clock the timer of AssertReceive runs on
    wait,       \* the AssertReceive / RefuteReceive call of the test
    refuted,    \* the last RefuteReceived call and what it returned
    mu,         \* TelemetryProvider.mu: the RWMutex of the registry
    nest,       \* the call a running callback makes into the provider
    rcall,      \* the AddHandlers / RemoveHandlers call of each goroutine
    mmu,        \* Mailer.mu: the RWMutex of the mailbox
    pcall,      \* the assertion whose predicate (mailboxFunc) is running
    hist        \* history: the order in which jobs were accepted and received

poolVars == <<workers, capacity, cancelled, jobs, wg, started, wpc, hand,
              status, result, runs, stopPc, lateCall, atCancel>>

spanVars == <<spc, span>>

waitVars == <<now, wait, refuted>>

mailVars == <<mailbox, mlog, seen, asserted, waitVars>>

lockVars == <<mu, nest, rcall, mmu, pcall>>

provCore == <<concurrent, handlers, lastOp, tpc, targs, tfuncs, ti, inv,
              trace, spanVars, mailVars, lockVars>>

provVars == <<provCore, hist>>

vars == <<poolVars, provVars>>

Range(s) == {s[i] : i \in DOMAIN s}

Finished == {"done", "panicked"}

Live == {"loop", "parked", "woken", "running", "check"}

LiveWorkers == {w \in Workers : wpc[w] \in Live}

Parked == {w \in Workers : wpc[w] = "parked"}

Running == {t \in Tasks : status[t] = "running"}

Accepted == {t \in Tasks : result[t] = "true"}

\* ---- Go maps (map[string]interface{}): functions from the keys present
\* to their values; a nil map reads as empty but cannot be written ----
EmptyMap == [k \in {} |-> 0]

NilMap == [nil |-> TRUE]

\* m[k] = v
MapSet(m, k, v) == [x \in DOMAIN m \cup {k} |-> IF x = k THEN v ELSE m[x]]

\* ---- event names: the names clients trigger, and the names TriggerSpan
\* derives from them with event + ".start", ".end", ".panic" ----
Events == {"e1", "e2", "e3"}

Suffixes == {".start", ".end", ".panic"}

Names == Events \cup {e \o x : e \in Events, x \in Suffixes}

\* ---- the handlers a client may register (telemetry_handler.go): an id,
\* the (event, callback) bindings AttachedHandlers() returns, and a config.
\* hA1 and hA2 are two handlers with the same id; hA2 binds one event twice,
\* hB binds the same callback twice; hM (below) is a Mailer; no handler
\* binds "e3" or a name derived from "e2" or "e3". ----
Ids == {"a", "b", "m"}

NoHandler == [id |-> "", regs |-> <<>>, config |-> ""]

hA1 == [id |-> "a", regs |-> <<[Event |-> "e1", Handler |-> "f1"]>>,
        config |-> "cfgA1"]

hA2 == [id |-> "a", regs |-> <<[Event |-> "e2", Handler |-> "f2"],
                              [Event |-> "e1", Handler |-> "f3"],
                              [Event |-> "e2", Handler |-> "f4"]>>,
        config |-> "cfgA2"]

hB == [id |-> "b", regs |-> <<[Event |-> "e1", Handler |-> "g1"],
                             [Event |-> "e1", Handler |-> "g1"]>>,
       config |-> "cfgB"]

\* ---- mailbox.NewMailer(id): no bindings yet; Config() returns nil ----
NewMailer(id) == [id |-> id, regs |-> <<>>, config |-> "nil"]

\* ---- Mailer.BuildHandlers(events...): one binding per event, each with
\* the callback buildHandler() returns ----
BuildHandlers(m, events) ==
    [m EXCEPT !.regs = @ \o [i \in DOMAIN events |->
                                [Event |-> events[i], Handler |-> "mail"]]]

hM == BuildHandlers(NewMailer("m"), <<"e1", "e1.start", "e1.end", "e1.panic">>)

HandlerSet == {hA1, hA2, hB}

\* the measurement and metadata maps caller c passes to its n-th TriggerEvent
\* call: values the provider only hands on, distinct from call to call
Payload(c, n) == [measurement |-> [m |-> c, n |-> n], metadata |-> [d |-> c]]

NoArgs == [event |-> "", measurement |-> <<>>, metadata |-> <<>>]

NoInv == [caller |-> 0, call |-> 0, idx |-> 0, id |-> "", handler |-> "",
          config |-> "", event |-> "", measurement |-> <<>>, metadata |-> <<>>]

\* ---- the span functions a client may pass to TriggerSpan: what spanFunc()
\* does when called (return its four results, or panic with a value) ----
BodyOk == [panics |-> FALSE, fault |-> "", result |-> "user", err |-> "nil",
           measurement |-> [count |-> 7], metadata |-> [result |-> 1]]

BodyPreset == [panics |-> FALSE, fault |-> "", result |-> "user", err |-> "failed",
               measurement |-> [duration |-> 9], metadata |-> EmptyMap]

BodyNil == [panics |-> FALSE, fault |-> "", result |-> "user", err |-> "nil",
            measurement |-> NilMap, metadata |-> NilMap]

BodyPanic == [panics |-> TRUE, fault |-> "boom", result |-> "", err |-> "",
              measurement |-> EmptyMap, metadata |-> EmptyMap]

\* return nil, err, nil, nil
BodyErrNil == [panics |-> FALSE, fault |-> "", result |-> "nil", err |-> "failed",
               measurement |-> NilMap, metadata |-> NilMap]

Bodies == {BodyOk, BodyPreset, BodyNil, BodyErrNil, BodyPanic}

NoSpan == [event |-> "", metadata |-> <<>>, body |-> BodyPanic, startTime |-> 0,
           fault |-> "", result |-> "", err |-> ""]

\* the readings time.Now().UnixMilli() may give: the wall clock, which the
\* system may set back between two readings
Times == 0..MaxTime

\* ---- the predicates (MailboxFunc) a test passes to an assertion: applied
\* to the event name and the snapshot of its log ----
Preds == {"any", "two", "first"}

MailboxFunc(pred, event, box) ==
    CASE pred = "any" -> TRUE
      [] pred = "two" -> Len(box) >= 2
      [] pred = "first" -> /\ Len(box) >= 1
                           /\ "n" \in DOMAIN box[1].Measurement
                           /\ box[1].Measurement.n = 1

\* ---- sync.RWMutex: any number of readers or one writer ----
FreeMu == [readers |-> 0, writer |-> FALSE]

\* RLock() returns when no writer holds the lock, Lock() when nobody does
CanRLock(m) == ~m.writer

CanLock(m) == ~m.writer /\ m.readers = 0

RLock(m) == [m EXCEPT !.readers = @ + 1]

\* Mutant of RUnlock: the read lock is kept.
RUnlock_Skip(m) == m

RUnlock(m) == [m EXCEPT !.readers = @ - 1]

\* Mutant of Lock: the write lock is not taken.
Lock_NotHeld(m) == m

Lock(m) == [m EXCEPT !.writer = TRUE]

Unlock(m) == [m EXCEPT !.writer = FALSE]

\* no job has been accepted or received
NoHist == [accepted |-> <<>>, picked |-> <<>>,
           late |-> [w \in Workers |-> 0]]

\* the goroutines that call AddHandlers / RemoveHandlers concurrently
Registrars == {1, 2}

\* a goroutine that is not inside a registry call
NoRegCall == [pc |-> "idle", op |-> "", hs |-> <<>>, i |-> 0,
              before |-> [id \in {"a", "b", "m"} |->
                            [id |-> "", regs |-> <<>>, config |-> ""]]]

\* no assertion is inside its predicate
NoPredCall == [pc |-> "none", event |-> "", pred |-> "", box |-> <<>>,
               began |-> 0, inner |-> "none", result |-> FALSE]

\* a callback that has not called into the provider
NoNest == [pc |-> "none", funcs |-> <<>>, i |-> 0, task |-> NoTask]

NoAssert == [event |-> "", pred |-> "", ok |-> FALSE, box |-> <<>>,
             result |-> FALSE]

\* no AssertReceive / RefuteReceive call has been made
NoWait == [pc |-> "none", event |-> "", pred |-> "", refute |-> FALSE,
           deadline |-> 0, began |-> 0, polled |-> FALSE, box |-> <<>>,
           hit |-> FALSE, atFire |-> "pending", fireBox |-> <<>>,
           result |-> FALSE, ret |-> FALSE]

\* no RefuteReceived call has been made
NoRefute == [event |-> "", pred |-> "", result |-> FALSE]

\* ---- NewPool ----
NewPool(n, buff) ==
    /\ workers = n
    /\ capacity = buff
    /\ cancelled = FALSE
    /\ jobs = <<>>
    /\ wg = 0

\* no job submitted, no caller of Stop, no caller of TriggerEvent yet
Quiet ==
    /\ hand = [w \in Workers |-> NoTask]
    /\ status = [t \in Tasks |-> "idle"]
    /\ result = [t \in Tasks |-> "none"]
    /\ runs = [t \in Tasks |-> 0]
    /\ stopPc = "idle"
    /\ lateCall = [t \in Tasks |-> FALSE]
    /\ atCancel = [t \in Tasks |-> "idle"]
    /\ tpc = [c \in Callers |-> "idle"]
    /\ targs = [c \in Callers |-> NoArgs]
    /\ tfuncs = [c \in Callers |-> <<>>]
    /\ ti = [c \in Callers |-> 0]
    /\ inv = [t \in Tasks |-> NoInv]
    /\ trace = [c \in Callers |-> <<>>]
    /\ spc = [c \in Callers |-> "none"]
    /\ span = [c \in Callers |-> NoSpan]
    /\ mailbox = EmptyMap
    /\ mlog = <<>>
    /\ seen = [n \in Names |-> <<>>]
    /\ asserted = NoAssert
    /\ now = 0
    /\ wait = NoWait
    /\ refuted = NoRefute
    /\ mu = FreeMu
    /\ nest = [t \in Tasks |-> NoNest]
    /\ rcall = [g \in Registrars |-> NoRegCall]
    /\ mmu = FreeMu
    /\ pcall = NoPredCall
    /\ hist = NoHist

\* A pool on its own (pool.NewPool called by a client), no provider in use.
Init ==
    /\ \E n \in 0..MaxWorkers, buff \in 0..MaxCap : NewPool(n, buff)
    /\ started = FALSE
    /\ wpc = [w \in Workers |-> "none"]
    /\ concurrent = FALSE
    /\ handlers = [id \in Ids |-> NoHandler]
    /\ lastOp = [id \in Ids |-> NoHandler]
    /\ Quiet

\* ---- StartWorkers / startWorkers: wg.Add(1); go p.worker(ctx), n times ----
\* Called at most once, and not after Stop (wg.Add must not race wg.Wait).
StartWorkers ==
    /\ ~started
    /\ stopPc = "idle"
    /\ started' = TRUE
    /\ wg' = wg + workers
    /\ wpc' = [w \in Workers |-> IF w <= workers THEN "loop" ELSE "none"]
    /\ UNCHANGED <<workers, capacity, cancelled, jobs, hand, status, result,
                   runs, stopPc, lateCall, atCancel>>

\* Mutant of SubmitCheck: the entry check of the context is missing.
SubmitCheck_NoCtxCheck(t) ==
    /\ status[t] = "idle"
    /\ \A u \in Tasks : u < t => status[u] # "idle"
    /\ lateCall' = [lateCall EXCEPT ![t] = (stopPc = "returned")]
    /\ status' = [status EXCEPT ![t] = "submitting"]
    /\ UNCHANGED <<workers, capacity, cancelled, jobs, wg, started, wpc, hand,
                   result, runs, stopPc, atCancel>>

\* ---- Submit, first select: case <-p.ctx.Done(): return false; default ----
\* Jobs are numbered in the order in which Submit is called for them (calls
\* still overlap: a later call may start before an earlier one has returned).
SubmitCheck(t) ==
    /\ status[t] = "idle"
    /\ \A u \in Tasks : u < t => status[u] # "idle"
    /\ lateCall' = [lateCall EXCEPT ![t] = (stopPc = "returned")]
    /\ IF cancelled
         THEN /\ status' = [status EXCEPT ![t] = "rejected"]
              /\ result' = [result EXCEPT ![t] = "false"]
         ELSE /\ status' = [status EXCEPT ![t] = "submitting"]
              /\ UNCHANGED result
    /\ UNCHANGED <<workers, capacity, cancelled, jobs, wg, started, wpc, hand,
                   runs, stopPc, atCancel>>

\* Mutant of SendReady: the buffer is treated as unbounded.
SendReady_Unbounded == TRUE

\* Mutant of SendReady: the last slot of the buffer is never used.
SendReady_OffByOne == Parked # {} \/ Len(jobs) + 1 < capacity

\* The send case of a select on p.jobs is ready when a receiver is parked on
\* the channel (direct hand-off, the only way with an unbuffered channel) or
\* when the buffer has a free slot.
SendReady ==
    Parked # {} \/ Len(jobs) < capacity

\* p.jobs <- job succeeded: hand-off to a parked worker, else into the buffer.
SendJob(t) ==
    /\ SendReady
    /\ result' = [result EXCEPT ![t] = "true"]
    /\ IF Parked # {}
         THEN \E w \in Parked :
                /\ wpc' = [wpc EXCEPT ![w] = "running"]
                /\ hand' = [hand EXCEPT ![w] = t]
                /\ status' = [status EXCEPT ![t] = "running"]
                /\ runs' = [runs EXCEPT ![t] = @ + 1]
                /\ UNCHANGED jobs
         ELSE /\ jobs' = Append(jobs, t)
              /\ status' = [status EXCEPT ![t] = "queued"]
              /\ UNCHANGED <<wpc, hand, runs>>

RejectJob(t) ==
    /\ result' = [result EXCEPT ![t] = "false"]
    /\ status' = [status EXCEPT ![t] = "rejected"]
    /\ UNCHANGED <<jobs, wpc, hand, runs>>

\* Mutant of Select: the default case may be taken while a case is ready.
Select_DefaultAlways(ready, otherwise) == ready \cup {otherwise}

\* What a Go select does: one of the ready cases, picked at random; when no
\* case is ready, the default case (or parking, for a select without one).
Select(ready, otherwise) ==
    IF ready = {} THEN {otherwise} ELSE ready

\* ---- Submit, second select: case p.jobs <- job / case <-p.ctx.Done() /
\* default ----
SubmitSend(t) ==
    /\ status[t] = "submitting"
    /\ \E c \in Select((IF SendReady THEN {"send"} ELSE {})
                          \cup (IF cancelled THEN {"done"} ELSE {}), "default") :
          IF c = "send" THEN SendJob(t) ELSE RejectJob(t)
    /\ UNCHANGED <<workers, capacity, cancelled, wg, started, stopPc,
                   lateCall, atCancel>>

Submit(t) == SubmitCheck(t) \/ SubmitSend(t)

\* ---- Stop: p.cancel(). Closing the Done channel wakes every goroutine
\* parked in a select on it. ----
StopCancel ==
    /\ stopPc = "idle"
    /\ stopPc' = "waiting"
    /\ cancelled' = TRUE
    /\ wpc' = [w \in Workers |-> IF wpc[w] = "parked" THEN "woken" ELSE wpc[w]]
    /\ atCancel' = status
    /\ UNCHANGED <<workers, capacity, jobs, wg, started, hand, status, result,
                   runs, lateCall>>

\* Mutant of StopWait: Stop returns without waiting for the workers.
StopWait_NoWait ==
    /\ stopPc = "waiting"
    /\ stopPc' = "returned"
    /\ UNCHANGED <<workers, capacity, cancelled, jobs, wg, started, wpc, hand,
                   status, result, runs, lateCall, atCancel>>

\* ---- Stop: p.wg.Wait() returns once the counter is zero ----
StopWait ==
    /\ stopPc = "waiting"
    /\ wg = 0
    /\ stopPc' = "returned"
    /\ UNCHANGED <<workers, capacity, cancelled, jobs, wg, started, wpc, hand,
                   status, result, runs, lateCall, atCancel>>

Stop == StopCancel \/ StopWait

\* return from worker: the deferred p.wg.Done() runs
WorkerExit(w) ==
    /\ wpc' = [wpc EXCEPT ![w] = "exited"]
    /\ wg' = wg - 1

\* Mutant of WorkerReceive: the job is started with `go job()` and the worker
\* goes straight back to its select.
WorkerReceive_Detached(w) ==
    /\ jobs # <<>>
    /\ jobs' = Tail(jobs)
    /\ status' = [status EXCEPT ![Head(jobs)] = "running"]
    /\ runs' = [runs EXCEPT ![Head(jobs)] = @ + 1]
    /\ UNCHANGED <<wg, wpc, hand>>

\* case job, ok := <-p.jobs (ok is always true: the channel is never closed)
\* Mutant of WorkerReceive: the newest job of the buffer is received.
WorkerReceive_Newest(w) ==
    /\ jobs # <<>>
    /\ hand' = [hand EXCEPT ![w] = jobs[Len(jobs)]]
    /\ jobs' = SubSeq(jobs, 1, Len(jobs) - 1)
    /\ wpc' = [wpc EXCEPT ![w] = "running"]
    /\ status' = [status EXCEPT ![jobs[Len(jobs)]] = "running"]
    /\ runs' = [runs EXCEPT ![jobs[Len(jobs)]] = @ + 1]
    /\ UNCHANGED wg

WorkerReceive(w) ==
    /\ jobs # <<>>
    /\ hand' = [hand EXCEPT ![w] = Head(jobs)]
    /\ jobs' = Tail(jobs)
    /\ wpc' = [wpc EXCEPT ![w] = "running"]
    /\ status' = [status EXCEPT ![Head(jobs)] = "running"]
    /\ runs' = [runs EXCEPT ![Head(jobs)] = @ + 1]
    /\ UNCHANGED wg

\* the worker goroutine blocks in its select
WorkerPark(w) ==
    /\ wpc' = [wpc EXCEPT ![w] = "parked"]
    /\ UNCHANGED <<jobs, hand, status, runs, wg>>

\* ---- worker: the select at the top of the loop: case <-ctx.Done() /
\* case job, ok := <-p.jobs; with no case ready the goroutine parks ----
WorkerSelect(w) ==
    /\ wpc[w] = "loop"
    /\ \E c \in Select((IF cancelled THEN {"done"} ELSE {})
                          \cup (IF jobs # <<>> THEN {"recv"} ELSE {}), "park") :
          CASE c = "done" -> WorkerExit(w) /\ UNCHANGED <<jobs, hand, status, runs>>
            [] c = "recv" -> WorkerReceive(w)
            [] c = "park" -> WorkerPark(w)
    /\ UNCHANGED <<workers, capacity, cancelled, started, result, stopPc,
                   lateCall, atCancel>>

\* ---- worker: woken from the select by the closed Done channel: return ----
WorkerWake(w) ==
    /\ wpc[w] = "woken"
    /\ WorkerExit(w)
    /\ UNCHANGED <<workers, capacity, cancelled, jobs, started, hand, status,
                   result, runs, stopPc, lateCall, atCancel>>

\* Mutant of JobOutcome: no recover(), a panicking job takes its worker down.
JobOutcome_NoRecover(w, outcome) ==
    /\ status' = [status EXCEPT ![hand[w]] = outcome]
    /\ hand' = [hand EXCEPT ![w] = NoTask]
    /\ IF outcome = "panicked"
         THEN WorkerExit(w)
         ELSE wpc' = [wpc EXCEPT ![w] = "check"] /\ UNCHANGED wg

\* job() returned normally, or panicked and the deferred recover() caught it
JobOutcome(w, outcome) ==
    /\ status' = [status EXCEPT ![hand[w]] = outcome]
    /\ hand' = [hand EXCEPT ![w] = NoTask]
    /\ wpc' = [wpc EXCEPT ![w] = "check"]
    /\ UNCHANGED wg

\* ---- worker: func() { defer recover...; job() }() ----
WorkerRun(w) ==
    /\ wpc[w] = "running"
    /\ \E outcome \in Finished : JobOutcome(w, outcome)
    /\ UNCHANGED <<workers, capacity, cancelled, jobs, started, result, runs,
                   stopPc, lateCall, atCancel>>

\* Mutant of WorkerCheckCtx: the worker returns after its first job.
WorkerCheckCtx_OneShot(w) ==
    /\ wpc[w] = "check"
    /\ WorkerExit(w)
    /\ UNCHANGED <<workers, capacity, cancelled, jobs, started, hand, status,
                   result, runs, stopPc, lateCall, atCancel>>

\* ---- worker: if ctx.Err() != nil { return } ----
\* Mutant of WorkerCheckCtx: the context is not looked at after a job.
WorkerCheckCtx_NoCheck(w) ==
    /\ wpc[w] = "check"
    /\ wpc' = [wpc EXCEPT ![w] = "loop"] /\ UNCHANGED wg
    /\ UNCHANGED <<workers, capacity, cancelled, jobs, started, hand, status,
                   result, runs, stopPc, lateCall, atCancel>>

WorkerCheckCtx(w) ==
    /\ wpc[w] = "check"
    /\ IF cancelled
         THEN WorkerExit(w)
         ELSE wpc' = [wpc EXCEPT ![w] = "loop"] /\ UNCHANGED wg
    /\ UNCHANGED <<workers, capacity, cancelled, jobs, started, hand, status,
                   result, runs, stopPc, lateCall, atCancel>>

worker(w) ==
    \/ WorkerSelect(w)
    \/ WorkerWake(w)
    \/ WorkerRun(w)
    \/ WorkerCheckCtx(w)

Next ==
    \/ StartWorkers /\ UNCHANGED provVars
    \/ \E t \in Tasks : SubmitCheck(t) /\ UNCHANGED provVars
    \/ \E t \in Tasks : SubmitSend(t) /\ UNCHANGED provVars
    \/ StopCancel /\ UNCHANGED provVars
    \/ StopWait /\ UNCHANGED provVars
    \/ \E w \in Workers : WorkerSelect(w) /\ UNCHANGED provVars
    \/ \E w \in Workers : WorkerWake(w) /\ UNCHANGED provVars
    \/ \E w \in Workers : WorkerRun(w) /\ UNCHANGED provVars
    \/ \E w \in Workers : WorkerCheckCtx(w) /\ UNCHANGED provVars

Spec == Init /\ [][Next]_vars

\* The pool when Stop is never called.
NextNoStop ==
    \/ StartWorkers /\ UNCHANGED provVars
    \/ \E t \in Tasks : SubmitCheck(t) /\ UNCHANGED provVars
    \/ \E t \in Tasks : SubmitSend(t) /\ UNCHANGED provVars
    \/ \E w \in Workers : WorkerSelect(w) /\ UNCHANGED provVars
    \/ \E w \in Workers : WorkerRun(w) /\ UNCHANGED provVars
    \/ \E w \in Workers : WorkerCheckCtx(w) /\ UNCHANGED provVars

\* ---- the history of the channel: a job is accepted when the send of
\* Submit is chosen and received when a worker goroutine gets it; late
\* counts the jobs each worker received after cancel() ----
Observe ==
    LET acc == {t \in Tasks : result[t] # "true" /\ result'[t] = "true"}
        got == {t \in Tasks : runs'[t] > runs[t]}
    IN  hist' = [accepted |-> IF acc = {} THEN hist.accepted
                              ELSE Append(hist.accepted, CHOOSE t \in acc : TRUE),
                 picked |-> IF got = {} THEN hist.picked
                            ELSE Append(hist.picked, CHOOSE t \in got : TRUE),
                 late |-> [w \in Workers |->
                             IF cancelled /\ hand'[w] # NoTask /\ hand'[w] # hand[w]
                               THEN hist.late[w] + 1 ELSE hist.late[w]]]

\* the pools of QueueSpec: one worker or two, no buffer or the largest
QueueConfigs == {1, 2} \X {0, MaxCap}

\* p := NewPool(n, buff); p.StartWorkers(), as NewTelemetry does
QueueInit ==
    /\ \E cfg \in QueueConfigs :
         /\ workers = cfg[1]
         /\ capacity = cfg[2]
         /\ wg = cfg[1]
         /\ wpc = [w \in Workers |-> IF w <= cfg[1] THEN "loop" ELSE "none"]
    /\ cancelled = FALSE
    /\ jobs = <<>>
    /\ started = TRUE
    /\ concurrent = FALSE
    /\ handlers = [id \in Ids |-> NoHandler]
    /\ lastOp = [id \in Ids |-> NoHandler]
    /\ Quiet

\* A pool on its own, with the order of acceptance and reception recorded.
QueueNext ==
    \/ \E t \in Tasks : SubmitCheck(t) /\ UNCHANGED provCore /\ Observe
    \/ \E t \in Tasks : SubmitSend(t) /\ UNCHANGED provCore /\ Observe
    \/ StopCancel /\ UNCHANGED provCore /\ Observe
    \/ StopWait /\ UNCHANGED provCore /\ Observe
    \/ \E w \in Workers : WorkerSelect(w) /\ UNCHANGED provCore /\ Observe
    \/ \E w \in Workers : WorkerWake(w) /\ UNCHANGED provCore /\ Observe
    \/ \E w \in Workers : WorkerRun(w) /\ UNCHANGED provCore /\ Observe
    \/ \E w \in Workers : WorkerCheckCtx(w) /\ UNCHANGED provCore /\ Observe

QueueSpec == QueueInit /\ [][QueueNext]_vars

\* The Go scheduler runs every runnable goroutine eventually; job() returns.
LiveSpec ==
    /\ Init
    /\ [][NextNoStop]_vars
    /\ \A w \in Workers : WF_vars(worker(w) /\ UNCHANGED provVars)

(***************************************************************************)
(* The telemetry provider (providers): registry and TriggerEvent           *)
(***************************************************************************)

\* the argument lists of one AddHandlers / RemoveHandlers call
HandlerLists ==
    UNION {[1..n -> HandlerSet] : n \in 1..MaxList}

\* the orders in which a `range` over a Go map may visit the keys in S
Orders(S) ==
    {o \in [1..Cardinality(S) -> S] : \A i, j \in DOMAIN o : o[i] = o[j] => i = j}

Registered == {id \in Ids : handlers[id] # NoHandler}

\* Mutant of PutHandler: an id already registered keeps its old handler.
PutHandler_KeepFirst(reg, h) ==
    IF reg[h.id] # NoHandler THEN reg ELSE [reg EXCEPT ![h.id] = h]

\* Mutant of PutHandler: re-adding an id merges the binding lists.
PutHandler_Merge(reg, h) ==
    [reg EXCEPT ![h.id] = [h EXCEPT !.regs = reg[h.id].regs \o h.regs]]

\* t.handlers[handler.ID()] = handler
PutHandler(reg, h) ==
    [reg EXCEPT ![h.id] = h]

\* delete(t.handlers, handler.ID())
DeleteHandler(reg, h) ==
    [reg EXCEPT ![h.id] = NoHandler]

RECURSIVE PutAll(_, _)
\* for _, handler := range handlers { t.handlers[handler.ID()] = handler }
PutAll(reg, hs) ==
    IF hs = <<>> THEN reg ELSE PutAll(PutHandler(reg, Head(hs)), Tail(hs))

RECURSIVE DeleteAll(_, _)
\* for _, handler := range handlers { delete(t.handlers, handler.ID()) }
DeleteAll(reg, hs) ==
    IF hs = <<>> THEN reg ELSE DeleteAll(DeleteHandler(reg, Head(hs)), Tail(hs))

\* the positions of the list hs that name the identity id
Mentions(hs, id) == {i \in DOMAIN hs : hs[i].id = id}

Max(S) == CHOOSE x \in S : \A y \in S : y <= x

\* ---- AddHandlers: the whole body runs under t.mu.Lock() ----
\* t.mu.Lock(); defer t.mu.Unlock(); t.handlers[handler.ID()] = handler
AddLocked(hs) ==
    /\ CanLock(mu)
    /\ mu' = Unlock(Lock(mu))
    /\ handlers' = PutAll(handlers, hs)
    /\ lastOp' = [id \in Ids |-> IF Mentions(hs, id) = {} THEN lastOp[id]
                                 ELSE hs[Max(Mentions(hs, id))]]

AddHandlers(hs) ==
    /\ AddLocked(hs)
    /\ UNCHANGED <<concurrent, tpc, targs, tfuncs, ti, inv, trace, spanVars,
                   mailVars, nest, rcall, mmu, pcall, hist>>
    /\ UNCHANGED poolVars

\* ---- RemoveHandlers: the whole body runs under t.mu.Lock() ----
\* t.mu.Lock(); defer t.mu.Unlock(); delete(t.handlers, handler.ID())
RemoveLocked(hs) ==
    /\ CanLock(mu)
    /\ mu' = Unlock(Lock(mu))
    /\ handlers' = DeleteAll(handlers, hs)
    /\ lastOp' = [id \in Ids |-> IF Mentions(hs, id) = {} THEN lastOp[id]
                                 ELSE NoHandler]

RemoveHandlers(hs) ==
    /\ RemoveLocked(hs)
    /\ UNCHANGED <<concurrent, tpc, targs, tfuncs, ti, inv, trace, spanVars,
                   mailVars, nest, rcall, mmu, pcall, hist>>
    /\ UNCHANGED poolVars

\* Mutant of Matches: a binding also matches the names that extend its own.
Matches_Prefix(bound, event) ==
    bound = event \/ \E x \in Suffixes : bound \o x = event

\* Mutant of Matches: every binding matches.
Matches_Any(bound, event) == TRUE

\* eventRegistrar.Event == event
Matches(bound, event) == bound = event

\* the executableEvent values of one handler for an event, in binding order
MatchingOf(h, event) ==
    LET hit == SelectSeq(h.regs, LAMBDA r : Matches(r.Event, event))
    IN  [i \in DOMAIN hit |-> [id |-> h.id, handler |-> hit[i].Handler,
                                config |-> h.config]]

RECURSIVE getEventFunc(_, _, _)
\* getEventFunc: range over the map t.handlers (in the order `order`), and for
\* each handler over AttachedHandlers(), appending where Event == event
getEventFunc(reg, order, event) ==
    IF order = <<>> THEN <<>>
    ELSE MatchingOf(reg[Head(order)], event) \o getEventFunc(reg, Tail(order), event)

\* callback invocations the callers in executeEventFuncs have yet to start
Pending ==
    LET left(c) == IF tpc[c] = "exec" THEN Len(tfuncs[c]) + 1 - ti[c]
                   ELSE IF tpc[c] \in {"call", "send"} THEN Len(tfuncs[c]) - ti[c]
                   ELSE 0
        RECURSIVE sum(_)
        sum(n) == IF n = 0 THEN 0 ELSE left(n) + sum(n - 1)
    IN  sum(MaxCallers)

Idle == {t \in Tasks : status[t] = "idle"}

\* ---- TriggerEvent: t.mu.RLock(); eventFuncs := t.getEventFunc(event);
\* t.mu.RUnlock(); if len(eventFuncs) == 0 { return nil } ----
\* (the model has MaxTasks invocation records: a call starts only if enough
\* are left for the callbacks it resolves). The caller is not inside another
\* TriggerEvent call: it has made none yet, or its last one has returned.
TriggerResolve(c, event, payload) ==
    /\ tpc[c] \in {"idle", "returned"}
    /\ CanRLock(mu)
    /\ mu' = RUnlock(RLock(mu))
    /\ \E order \in Orders(Registered) :
         LET eventFuncs == getEventFunc(handlers, order, event)
         IN  /\ Len(eventFuncs) + Pending <= Cardinality(Idle)
             /\ tfuncs' = [tfuncs EXCEPT ![c] = eventFuncs]
             /\ tpc' = [tpc EXCEPT ![c] = IF Len(eventFuncs) = 0 THEN "returned"
                                          ELSE "exec"]
             /\ ti' = [ti EXCEPT ![c] = IF Len(eventFuncs) = 0 THEN 0 ELSE 1]
             /\ trace' = [trace EXCEPT ![c] =
                            Append(@, [event |-> event,
                                       measurement |-> payload.measurement,
                                       metadata |-> payload.metadata,
                                       funcs |-> eventFuncs,
                                       at |-> now])]
    /\ targs' = [targs EXCEPT ![c] = [event |-> event,
                                      measurement |-> payload.measurement,
                                      metadata |-> payload.metadata]]
    /\ UNCHANGED <<concurrent, handlers, lastOp, inv, mailVars, nest, rcall, mmu, pcall, hist>>
    /\ UNCHANGED poolVars

\* the TriggerEvent calls made so far, by all callers (at most MaxCalls are
\* made in a run of the model)
Calls ==
    LET RECURSIVE sum(_)
        sum(n) == IF n = 0 THEN 0 ELSE Len(trace[n]) + sum(n - 1)
    IN  sum(MaxCallers)

\* the names clients pass to TriggerEvent
TriggerNames == {"e1", "e3", "e1.start"}

\* ---- a client calls TriggerEvent(event, measurement, metadata) ----
TriggerCall(c) ==
    /\ spc[c] = "none"
    /\ Calls < MaxCalls
    /\ \E event \in TriggerNames :
         TriggerResolve(c, event, Payload(c, Len(trace[c]) + 1))
    /\ UNCHANGED spanVars

\* Mutant of Invocation: the callback is looked up in the registry again
\* when it is about to be invoked.
Invocation_Live(c) ==
    [caller |-> c, call |-> Len(trace[c]), idx |-> ti[c],
     id |-> tfuncs[c][ti[c]].id,
     handler |-> IF handlers[tfuncs[c][ti[c]].id] = NoHandler THEN "gone"
                 ELSE tfuncs[c][ti[c]].handler,
     config |-> tfuncs[c][ti[c]].config,
     event |-> targs[c].event,
     measurement |-> targs[c].measurement,
     metadata |-> targs[c].metadata]

\* the invocation the caller c is about to make, as a record
Invocation(c) ==
    [caller |-> c, call |-> Len(trace[c]), idx |-> ti[c],
     id |-> tfuncs[c][ti[c]].id,
     handler |-> tfuncs[c][ti[c]].handler,
     config |-> tfuncs[c][ti[c]].config,
     event |-> targs[c].event,
     measurement |-> targs[c].measurement,
     metadata |-> targs[c].metadata]

\* the job / invocation of caller c for the current loop index
Current(c) ==
    CHOOSE t \in Tasks : /\ inv[t].caller = c
                         /\ inv[t].call = Len(trace[c])
                         /\ inv[t].idx = ti[c]

Min(S) == CHOOSE x \in S : \A y \in S : x <= y

\* the MailData value the Mailer logs for an invocation
MailData(i) == [Measurement |-> i.measurement, Metadata |-> i.metadata]

\* Mutant of Deliver: the log of the name is replaced by the new occurrence.
Deliver_Overwrite(box, event, data) ==
    MapSet(box, event, <<data>>)

\* Mutant of Deliver: the new occurrence is put in front.
Deliver_Prepend(box, event, data) ==
    MapSet(box, event, <<data>> \o (IF event \in DOMAIN box THEN box[event] ELSE <<>>))

\* Mutant of Deliver: every occurrence is filed under the handler's first name.
Deliver_OneName(box, event, data) ==
    MapSet(box, "e1", Append(IF "e1" \in DOMAIN box THEN box["e1"] ELSE <<>>, data))

\* ---- Mailer.buildHandler, the callback, under m.mu.Lock():
\* mailbox, ok := m.mailbox[event]; if !ok { mailbox = make([]MailData, 0) };
\* mailbox = append(mailbox, MailData{...}); m.mailbox[event] = mailbox ----
Deliver(box, event, data) ==
    MapSet(box, event, Append(IF event \in DOMAIN box THEN box[event] ELSE <<>>, data))

\* eventFunc.handler(event, measurement, metadata, eventFunc.config) for the
\* invocation t: the Mailer's callback takes m.mu.Lock(), appends to its log,
\* unlocks and returns; the callbacks of other handlers return or panic
Callback(t, outcome) ==
    IF inv[t].handler = "mail"
      THEN /\ outcome = "done"
           /\ CanLock(mmu)
           /\ mailbox' = Deliver(mailbox, inv[t].event, MailData(inv[t]))
           /\ mlog' = Append(mlog, t)
      ELSE UNCHANGED <<mailbox, mlog>>

\* Mutant of CallDirect: the callback is started with `go` and the loop goes
\* on without waiting for it.
CallDirect_Detached(c, t) ==
    /\ status' = [status EXCEPT ![t] = "running"]
    /\ runs' = [runs EXCEPT ![t] = @ + 1]
    /\ tpc' = [tpc EXCEPT ![c] = "exec"]
    /\ ti' = [ti EXCEPT ![c] = @ + 1]
    /\ UNCHANGED <<workers, capacity, cancelled, jobs, wg, started, wpc, hand,
                   result, stopPc, lateCall, atCancel>>

\* synchronous branch: t.executeHandlerSafely(...) is entered on the caller's
\* goroutine
CallDirect(c, t) ==
    /\ status' = [status EXCEPT ![t] = "running"]
    /\ runs' = [runs EXCEPT ![t] = @ + 1]
    /\ tpc' = [tpc EXCEPT ![c] = "call"]
    /\ UNCHANGED ti
    /\ UNCHANGED <<workers, capacity, cancelled, jobs, wg, started, wpc, hand,
                   result, stopPc, lateCall, atCancel>>

\* ---- executeEventFuncs, one iteration of the loop: in concurrent mode
\* t.pool.Submit(func() {...}) is entered (its first select), otherwise the
\* callback is called directly ----
TriggerInvoke(c) ==
    /\ tpc[c] = "exec"
    /\ ti[c] <= Len(tfuncs[c])
    /\ Idle # {}
    /\ LET t == Min(Idle)
       IN  /\ inv' = [inv EXCEPT ![t] = Invocation(c)]
           /\ IF concurrent
                THEN /\ SubmitCheck(t)
                     /\ tpc' = [tpc EXCEPT ![c] = "send"]
                     /\ UNCHANGED ti
                ELSE CallDirect(c, t)
    /\ UNCHANGED <<concurrent, handlers, lastOp, targs, tfuncs, trace, spanVars,
                   mailVars, lockVars, hist>>

\* Mutant of TriggerSubmit: a rejected submission ends the loop.
TriggerSubmit_StopOnReject(c) ==
    /\ tpc[c] = "send"
    /\ SubmitSend(Current(c))
    /\ tpc' = [tpc EXCEPT ![c] = "exec"]
    /\ ti' = [ti EXCEPT ![c] = IF result'[Current(c)] = "false"
                               THEN Len(tfuncs[c]) + 1 ELSE @ + 1]
    /\ UNCHANGED <<concurrent, handlers, lastOp, targs, tfuncs, inv, trace,
                   spanVars, mailVars, lockVars, hist>>

\* ---- executeEventFuncs, concurrent mode: the second select of Submit; the
\* result of Submit is dropped and the loop goes on ----
TriggerSubmit(c) ==
    /\ tpc[c] = "send"
    /\ SubmitSend(Current(c))
    /\ tpc' = [tpc EXCEPT ![c] = "exec"]
    /\ ti' = [ti EXCEPT ![c] = @ + 1]
    /\ UNCHANGED <<concurrent, handlers, lastOp, targs, tfuncs, inv, trace,
                   spanVars, mailVars, lockVars, hist>>

\* Mutant of TriggerCallEnd: no recover(), the panic of a callback unwinds
\* TriggerEvent.
TriggerCallEnd_NoRecover(c) ==
    /\ tpc[c] = "call"
    /\ \E outcome \in Finished :
         /\ status' = [status EXCEPT ![Current(c)] = outcome]
         /\ Callback(Current(c), outcome)
         /\ tpc' = [tpc EXCEPT ![c] = IF outcome = "panicked" THEN "panicked"
                                      ELSE "exec"]
    /\ ti' = [ti EXCEPT ![c] = @ + 1]
    /\ UNCHANGED <<concurrent, handlers, lastOp, targs, tfuncs, inv, trace,
                   spanVars, seen, asserted, waitVars, lockVars, hist>>
    /\ UNCHANGED <<workers, capacity, cancelled, jobs, wg, started, wpc, hand,
                   result, runs, stopPc, lateCall, atCancel>>

\* ---- executeHandlerSafely on the caller's goroutine: the callback returns,
\* or panics and the deferred recover() logs it ----
TriggerCallEnd(c) ==
    /\ tpc[c] = "call"
    /\ \E outcome \in Finished :
         /\ status' = [status EXCEPT ![Current(c)] = outcome]
         /\ Callback(Current(c), outcome)
    /\ tpc' = [tpc EXCEPT ![c] = "exec"]
    /\ ti' = [ti EXCEPT ![c] = @ + 1]
    /\ UNCHANGED <<concurrent, handlers, lastOp, targs, tfuncs, inv, trace,
                   spanVars, seen, asserted, waitVars, lockVars, hist>>
    /\ UNCHANGED <<workers, capacity, cancelled, jobs, wg, started, wpc, hand,
                   result, runs, stopPc, lateCall, atCancel>>

\* ---- TriggerEvent: the loop of executeEventFuncs is over: return nil ----
TriggerReturn(c) ==
    /\ tpc[c] = "exec"
    /\ ti[c] > Len(tfuncs[c])
    /\ tpc' = [tpc EXCEPT ![c] = "returned"]
    /\ UNCHANGED <<concurrent, handlers, lastOp, targs, tfuncs, ti, inv, trace,
                   spanVars, mailVars, lockVars, hist>>
    /\ UNCHANGED poolVars

TriggerEvent(c) ==
    \/ TriggerCall(c)
    \/ TriggerInvoke(c)
    \/ TriggerSubmit(c)
    \/ TriggerCallEnd(c)
    \/ TriggerReturn(c)

\* ---- a worker of the provider's pool runs the closure given to Submit:
\* executeHandlerSafely (the callback returns, or panics and is recovered
\* there, so the closure itself always returns) ----
WorkerCallback(w) ==
    /\ wpc[w] = "running"
    /\ \E outcome \in Finished :
         /\ JobOutcome(w, outcome)
         /\ Callback(hand[w], outcome)
    /\ UNCHANGED <<workers, capacity, cancelled, jobs, started, result, runs,
                   stopPc, lateCall, atCancel>>
    /\ UNCHANGED <<concurrent, handlers, lastOp, tpc, targs, tfuncs, ti, inv,
                   trace, spanVars, seen, asserted, waitVars, lockVars, hist>>

(***************************************************************************)
(* Callbacks that call back into the provider                              *)
(***************************************************************************)

\* ---- handlers whose callback calls AddHandlers, RemoveHandlers or
\* TriggerEvent on the provider it is registered with (the handler of the
\* last one also binds the event its callback triggers) ----
hRa == [id |-> "b", regs |-> <<[Event |-> "e1", Handler |-> "reAdd"]>>,
        config |-> "cfgR"]

hRr == [id |-> "b", regs |-> <<[Event |-> "e1", Handler |-> "reRemove"]>>,
        config |-> "cfgR"]

hRt == [id |-> "b", regs |-> <<[Event |-> "e1", Handler |-> "reTrigger"],
                              [Event |-> "e2", Handler |-> "f2"]>>,
        config |-> "cfgR"]

ReHandlers == {"reAdd", "reRemove", "reTrigger"}

\* the callback of invocation t is running (on the caller's goroutine or on
\* a worker) and is one that calls into the provider
Reentering(t) == status[t] = "running" /\ inv[t].handler \in ReHandlers

\* the callback of invocation t may return: it has made its call into the
\* provider and that call has returned
ReDone(t) == inv[t].handler \in ReHandlers => nest[t].pc = "done"

ReFrame ==
    /\ UNCHANGED <<concurrent, tpc, targs, tfuncs, ti, trace, spanVars,
                   mailVars, rcall, mmu, pcall, hist>>

\* the callback calls t.AddHandlers(hA1)
ReAddHandlers(t) ==
    /\ Reentering(t)
    /\ inv[t].handler = "reAdd"
    /\ nest[t].pc = "none"
    /\ AddLocked(<<hA1>>)
    /\ nest' = [nest EXCEPT ![t].pc = "done"]
    /\ ReFrame
    /\ UNCHANGED inv
    /\ UNCHANGED poolVars

\* the callback calls t.RemoveHandlers on its own handler
ReRemoveHandlers(t) ==
    /\ Reentering(t)
    /\ inv[t].handler = "reRemove"
    /\ nest[t].pc = "none"
    /\ RemoveLocked(<<hRr>>)
    /\ nest' = [nest EXCEPT ![t].pc = "done"]
    /\ ReFrame
    /\ UNCHANGED inv
    /\ UNCHANGED poolVars

\* the callback calls t.TriggerEvent("e2", measurement, metadata):
\* t.mu.RLock(); eventFuncs := t.getEventFunc(event); t.mu.RUnlock()
ReTriggerResolve(t) ==
    /\ Reentering(t)
    /\ inv[t].handler = "reTrigger"
    /\ nest[t].pc = "none"
    /\ CanRLock(mu)
    /\ mu' = RUnlock(RLock(mu))
    /\ \E order \in Orders(Registered) :
         LET eventFuncs == getEventFunc(handlers, order, "e2")
         IN  nest' = [nest EXCEPT ![t] =
                        [pc |-> IF Len(eventFuncs) = 0 THEN "done" ELSE "exec",
                         funcs |-> eventFuncs, i |-> 1, task |-> NoTask]]
    /\ ReFrame
    /\ UNCHANGED <<handlers, lastOp, inv>>
    /\ UNCHANGED poolVars

\* the invocation the nested call of t is about to make, as a record
ReInvocation(t) ==
    [caller |-> 0, call |-> t, idx |-> nest[t].i,
     id |-> nest[t].funcs[nest[t].i].id,
     handler |-> nest[t].funcs[nest[t].i].handler,
     config |-> nest[t].funcs[nest[t].i].config,
     event |-> "e2",
     measurement |-> inv[t].measurement,
     metadata |-> inv[t].metadata]

\* executeEventFuncs of the nested call, one iteration: in concurrent mode
\* t.pool.Submit is entered, otherwise the callback is called and returns
\* or panics and is recovered
ReTriggerInvoke(t) ==
    /\ Reentering(t)
    /\ nest[t].pc = "exec"
    /\ nest[t].i <= Len(nest[t].funcs)
    /\ Idle # {}
    /\ LET u == Min(Idle)
       IN  /\ inv' = [inv EXCEPT ![u] = ReInvocation(t)]
           /\ IF concurrent
                THEN /\ SubmitCheck(u)
                     /\ nest' = [nest EXCEPT ![t].pc = "send", ![t].task = u]
                ELSE /\ \E outcome \in Finished :
                          status' = [status EXCEPT ![u] = outcome]
                     /\ runs' = [runs EXCEPT ![u] = @ + 1]
                     /\ nest' = [nest EXCEPT ![t].i = @ + 1]
                     /\ UNCHANGED <<workers, capacity, cancelled, jobs, wg,
                                    started, wpc, hand, result, stopPc,
                                    lateCall, atCancel>>
    /\ ReFrame
    /\ UNCHANGED <<handlers, lastOp, mu>>

\* the second select of Submit in the nested call; its result is dropped
ReTriggerSubmit(t) ==
    /\ Reentering(t)
    /\ nest[t].pc = "send"
    /\ SubmitSend(nest[t].task)
    /\ nest' = [nest EXCEPT ![t].pc = "exec", ![t].i = @ + 1,
                            ![t].task = NoTask]
    /\ ReFrame
    /\ UNCHANGED <<handlers, lastOp, inv, mu>>

\* the nested TriggerEvent returns nil to the callback
ReTriggerReturn(t) ==
    /\ Reentering(t)
    /\ nest[t].pc = "exec"
    /\ nest[t].i > Len(nest[t].funcs)
    /\ nest' = [nest EXCEPT ![t].pc = "done"]
    /\ ReFrame
    /\ UNCHANGED <<handlers, lastOp, inv, mu>>
    /\ UNCHANGED poolVars

\* the steps of the call a callback makes into the provider
Reenter(t) ==
    \/ ReAddHandlers(t)
    \/ ReRemoveHandlers(t)
    \/ ReTriggerResolve(t)
    \/ ReTriggerInvoke(t)
    \/ ReTriggerSubmit(t)
    \/ ReTriggerReturn(t)

(***************************************************************************)
(* TriggerSpan                                                             *)
(***************************************************************************)

\* the metadata map a client passes to TriggerSpan
SpanMetadata == [occured_at |-> 0]

\* the names clients pass to TriggerSpan: the Mailer is bound to the names
\* derived from "e1", no handler to those derived from "e3"
SpanEvents == {"e1", "e3"}

\* ---- TriggerSpan: startTime := time.Now().UnixMilli(); then
\* t.TriggerEvent(event+".start", {"start_time": startTime}, metadata) ----
\* (a span makes two TriggerEvent calls: it starts only if the model has room
\* for both)
SpanStart(c, event, body) ==
    /\ spc[c] = "none"
    /\ tpc[c] = "idle"
    /\ Calls + Cardinality({d \in Callers : spc[d] \in {"start", "body"}}) + 2
          <= MaxCalls
    /\ \E startTime \in Times :
         /\ span' = [span EXCEPT ![c] = [NoSpan EXCEPT !.event = event,
                                                      !.metadata = SpanMetadata,
                                                      !.body = body,
                                                      !.startTime = startTime]]
         /\ TriggerResolve(c, event \o ".start",
                           [measurement |-> [start_time |-> startTime],
                            metadata |-> SpanMetadata])
    /\ spc' = [spc EXCEPT ![c] = "start"]

\* Mutant of SpanBody: the body starts without waiting for the return of
\* TriggerEvent(event+".start").
SpanBody_NoWait(c) ==
    /\ spc[c] = "start"
    /\ spc' = [spc EXCEPT ![c] = "body"]
    /\ UNCHANGED <<concurrent, handlers, lastOp, tpc, targs, tfuncs, ti, inv,
                   trace, span, mailVars, lockVars, hist>>
    /\ UNCHANGED poolVars

\* ---- TriggerSpan: TriggerEvent(startEvent, ...) has returned; spanFunc()
\* is called, on the caller's goroutine ----
SpanBody(c) ==
    /\ spc[c] = "start"
    /\ tpc[c] = "returned"
    /\ spc' = [spc EXCEPT ![c] = "body"]
    /\ UNCHANGED <<concurrent, handlers, lastOp, tpc, targs, tfuncs, ti, inv,
                   trace, span, mailVars, lockVars, hist>>
    /\ UNCHANGED poolVars

\* the deferred function: r := recover(); errorTime := time.Now().UnixMilli();
\* t.TriggerEvent(event+".panic", {}, {error, errorTime, stackTrace})
SpanPanic(c, r) ==
    /\ \E errorTime \in Times :
         TriggerResolve(c, span[c].event \o ".panic",
                        [measurement |-> EmptyMap,
                         metadata |-> [error |-> r, errorTime |-> errorTime,
                                       stackTrace |-> "stack"]])
    /\ span' = [span EXCEPT ![c].fault = r]
    /\ spc' = [spc EXCEPT ![c] = "panic"]

\* spanFunc() returned: endTime := time.Now().UnixMilli();
\* spanMeasurement["duration"] = endTime - startTime;
\* spanMeasurement["end_time"] = endTime;
\* t.TriggerEvent(event+".end", spanMeasurement, spanMetadata)
SpanEnd(c, endTime) ==
    LET body == span[c].body
        duration == endTime - span[c].startTime
        spanMeasurement == MapSet(MapSet(body.measurement, "duration", duration),
                                  "end_time", endTime)
    IN  /\ TriggerResolve(c, span[c].event \o ".end",
                          [measurement |-> spanMeasurement,
                           metadata |-> body.metadata])
        /\ span' = [span EXCEPT ![c].result = body.result, ![c].err = body.err]
        /\ spc' = [spc EXCEPT ![c] = "end"]

\* ---- TriggerSpan: spanFunc() ends. It panics, and the deferred function
\* runs; or it returns, and the assignment spanMeasurement["duration"] = ...
\* panics when the map it returned is nil ("assignment to entry in nil map"),
\* and the deferred function runs; or the end event is triggered ----
SpanBodyEnd(c) ==
    /\ spc[c] = "body"
    /\ IF span[c].body.panics
         THEN SpanPanic(c, span[c].body.fault)
         ELSE IF span[c].body.measurement = NilMap
                THEN SpanPanic(c, "assignment to entry in nil map")
                ELSE \E endTime \in Times : SpanEnd(c, endTime)

\* Mutant of SpanReturn: the recovered panic is not raised again.
SpanReturn_Swallow(c) ==
    /\ spc[c] \in {"end", "panic"}
    /\ tpc[c] = "returned"
    /\ spc' = [spc EXCEPT ![c] = "returned"]
    /\ UNCHANGED <<concurrent, handlers, lastOp, tpc, targs, tfuncs, ti, inv,
                   trace, span, mailVars, lockVars, hist>>
    /\ UNCHANGED poolVars

\* ---- TriggerSpan: the last TriggerEvent has returned: return result, err;
\* or, in the deferred function, panic(r) ----
SpanReturn(c) ==
    /\ spc[c] \in {"end", "panic"}
    /\ tpc[c] = "returned"
    /\ spc' = [spc EXCEPT ![c] = IF spc[c] = "end" THEN "returned" ELSE "panicked"]
    /\ UNCHANGED <<concurrent, handlers, lastOp, tpc, targs, tfuncs, ti, inv,
                   trace, span, mailVars, lockVars, hist>>
    /\ UNCHANGED poolVars

TriggerSpan(c) ==
    \/ \E event \in SpanEvents, body \in Bodies : SpanStart(c, event, body)
    \/ SpanBody(c)
    \/ SpanBodyEnd(c)
    \/ SpanReturn(c)

(***************************************************************************)
(* The Mailer's assertions                                                 *)
(***************************************************************************)

\* ---- Mailer.AssertReceived: m.mu.RLock(); mailbox, ok := m.mailbox[event];
\* m.mu.RUnlock(); if !ok { return false }; return mailboxFunc(event,
\* mailbox...) ----
\* Mutant of AssertReceived: the predicate is given the newest occurrence
\* only.
AssertReceived_Newest(event, pred) ==
    LET ok == event \in DOMAIN mailbox
        box == IF ok THEN mailbox[event] ELSE <<>>
        newest == IF box = <<>> THEN <<>> ELSE <<box[Len(box)]>>
    IN  /\ asserted' = [event |-> event, pred |-> pred, ok |-> ok, box |-> box,
                        result |-> IF ~ok THEN FALSE
                                   ELSE MailboxFunc(pred, event, newest)]
        /\ seen' = [seen EXCEPT ![event] = box]
        /\ UNCHANGED <<mailbox, mlog, now, wait>>
        /\ UNCHANGED <<concurrent, handlers, lastOp, tpc, targs, tfuncs, ti, inv,
                       trace, spanVars, lockVars, hist>>
        /\ UNCHANGED poolVars

\* Mutant of AssertReceived: a name without a log is treated as an empty
\* log and the predicate decides.
AssertReceived_AskPredicate(event, pred) ==
    LET ok == event \in DOMAIN mailbox
        box == IF ok THEN mailbox[event] ELSE <<>>
    IN  /\ asserted' = [event |-> event, pred |-> pred, ok |-> ok, box |-> box,
                        result |-> MailboxFunc(pred, event, box)]
        /\ seen' = [seen EXCEPT ![event] = box]
        /\ UNCHANGED <<mailbox, mlog, now, wait>>
        /\ UNCHANGED <<concurrent, handlers, lastOp, tpc, targs, tfuncs, ti, inv,
                       trace, spanVars, lockVars, hist>>
        /\ UNCHANGED poolVars

AssertReceived(event, pred) ==
    LET ok == event \in DOMAIN mailbox
        box == IF ok THEN mailbox[event] ELSE <<>>
    IN  /\ asserted' = [event |-> event, pred |-> pred, ok |-> ok, box |-> box,
                        result |-> IF ~ok THEN FALSE
                                   ELSE MailboxFunc(pred, event, box)]
        /\ seen' = [seen EXCEPT ![event] = box]
        /\ UNCHANGED <<mailbox, mlog, now, wait>>
        /\ UNCHANGED <<concurrent, handlers, lastOp, tpc, targs, tfuncs, ti, inv,
                       trace, spanVars, lockVars, hist>>
        /\ UNCHANGED poolVars

\* ---- Mailer.RefuteReceived: return !m.AssertReceived(event, mailboxFunc)
RefuteReceived(event, pred) ==
    /\ AssertReceived(event, pred)
    /\ refuted' = [event |-> event, pred |-> pred,
                   result |-> ~asserted'.result]

\* ---- Mailer.AssertReceive(event, timeout, mailboxFunc), and
\* Mailer.RefuteReceive, which returns !m.AssertReceive(...) ----
\* The clock counts periods of 50 ms. timer := time.NewTimer(timeout): the
\* channel timer.C is ready from the instant now reaches the deadline.
Timeouts == {1, MaxClock}

TimerFired == now >= wait.deadline

Waiting == wait.pc \in {"select", "read", "pred"}

\* everything a step of the waiting call leaves alone
WaitFrame ==
    /\ UNCHANGED <<mailbox, mlog, seen, asserted, now, refuted>>
    /\ UNCHANGED <<concurrent, handlers, lastOp, tpc, targs, tfuncs, ti, inv,
                   trace, spanVars, lockVars, hist>>
    /\ UNCHANGED poolVars

\* the call is made: the timer is created
WaitStart(event, pred, timeout, refute) ==
    /\ wait.pc = "none"
    /\ now + timeout <= MaxClock
    /\ wait' = [NoWait EXCEPT !.pc = "select", !.event = event, !.pred = pred,
                              !.refute = refute, !.deadline = now + timeout]
    /\ WaitFrame

\* Mutant of WaitReturn: RefuteReceive hands the answer of AssertReceive on
\* as it is.
WaitReturn_NoNegation(w, answer) ==
    [w EXCEPT !.pc = "returned", !.result = answer, !.ret = answer]

\* what the caller gets: the answer of AssertReceive, negated by
\* RefuteReceive
WaitReturn(w, answer) ==
    [w EXCEPT !.pc = "returned", !.result = answer,
              !.ret = IF w.refute THEN ~answer ELSE answer]

\* Mutant of WaitSelect: the timer is not looked at while the name has no
\* log yet.
WaitSelect_IgnoreTimer ==
    /\ wait.pc = "select"
    /\ wait' = IF TimerFired /\ wait.event \in DOMAIN mailbox
                 THEN WaitReturn(wait, FALSE)
                 ELSE [wait EXCEPT !.pc = "read", !.began = now]
    /\ WaitFrame

\* select { case <-timer.C: return false; default: ... }
WaitSelect ==
    /\ wait.pc = "select"
    /\ wait' = IF TimerFired THEN WaitReturn(wait, FALSE)
                 ELSE [wait EXCEPT !.pc = "read", !.began = now]
    /\ WaitFrame

\* the end of one iteration of the loop: it counts as a poll of the current
\* period when it also began in it
WaitAgain(w) ==
    [w EXCEPT !.pc = "select", !.polled = @ \/ w.began = now]

\* Mutant of WaitRead: the log of the Mailer's first name is read.
WaitRead_AnyName ==
    /\ wait.pc = "read"
    /\ wait' = IF "e1" \in DOMAIN mailbox
                 THEN [wait EXCEPT !.pc = "pred", !.box = mailbox["e1"]]
                 ELSE WaitAgain(wait)
    /\ WaitFrame

\* m.mu.RLock(); mailbox, ok := m.mailbox[event]; m.mu.RUnlock();
\* if !ok { continue }
WaitRead ==
    /\ wait.pc = "read"
    /\ wait' = IF wait.event \in DOMAIN mailbox
                 THEN [wait EXCEPT !.pc = "pred", !.box = mailbox[wait.event]]
                 ELSE WaitAgain(wait)
    /\ WaitFrame

\* Mutant of WaitPred: the answer of the predicate is returned as it is.
WaitPred_ReturnFalse ==
    /\ wait.pc = "pred"
    /\ wait' = WaitReturn(wait, MailboxFunc(wait.pred, wait.event, wait.box))
    /\ WaitFrame

\* if mailboxFunc(event, mailbox...) { return true }
WaitPred ==
    /\ wait.pc = "pred"
    /\ wait' = IF MailboxFunc(wait.pred, wait.event, wait.box)
                 THEN [WaitReturn(wait, TRUE) EXCEPT !.hit = TRUE]
                 ELSE WaitAgain(wait)
    /\ WaitFrame

\* Mutant of Tick: the waiting goroutine is not scheduled for a whole
\* period.
Tick_Starved ==
    /\ now < MaxClock
    /\ \A c \in Callers : tpc[c] \in {"idle", "returned"}
    /\ now' = now + 1
    /\ wait' = [wait EXCEPT
                  !.polled = FALSE,
                  !.atFire = IF Waiting /\ now + 1 = wait.deadline
                               THEN IF wait.event \in DOMAIN mailbox
                                      THEN "present" ELSE "absent"
                               ELSE @,
                  !.fireBox = IF /\ Waiting /\ now + 1 = wait.deadline
                                 /\ wait.event \in DOMAIN mailbox
                                THEN mailbox[wait.event] ELSE @]
    /\ UNCHANGED <<mailbox, mlog, seen, asserted, refuted>>
    /\ UNCHANGED <<concurrent, handlers, lastOp, tpc, targs, tfuncs, ti, inv,
                   trace, spanVars, lockVars, hist>>
    /\ UNCHANGED poolVars

\* 50 ms pass. Within a period the goroutine that triggers events ends the
\* call it is in, and the waiting goroutine, which never blocks, goes at
\* least once through its loop.
Tick ==
    /\ now < MaxClock
    /\ \A c \in Callers : tpc[c] \in {"idle", "returned"}
    /\ Waiting => wait.polled
    /\ now' = now + 1
    /\ wait' = [wait EXCEPT
                  !.polled = FALSE,
                  !.atFire = IF Waiting /\ now + 1 = wait.deadline
                               THEN IF wait.event \in DOMAIN mailbox
                                      THEN "present" ELSE "absent"
                               ELSE @,
                  !.fireBox = IF /\ Waiting /\ now + 1 = wait.deadline
                                 /\ wait.event \in DOMAIN mailbox
                                THEN mailbox[wait.event] ELSE @]
    /\ UNCHANGED <<mailbox, mlog, seen, asserted, refuted>>
    /\ UNCHANGED <<concurrent, handlers, lastOp, tpc, targs, tfuncs, ti, inv,
                   trace, spanVars, lockVars, hist>>
    /\ UNCHANGED poolVars

\* the assertions a test makes: on "e1", which the Mailer is bound to, and on
\* "e3", which is never delivered
Assertions == {<<"e1", "two">>, <<"e1", "first">>, <<"e3", "any">>}

(***************************************************************************)
(* Specifications of the provider                                          *)
(***************************************************************************)

\* ---- NewTelemetry: an empty registry; with AllowConcurrentExecution a pool
\* of ConcurrentPoolSize workers and a ConcurrentBufferSize buffer is created
\* and its workers are started; otherwise there is no pool ----
NewTelemetry(allow, size, buff) ==
    /\ concurrent = allow
    /\ handlers = [id \in Ids |-> NoHandler]
    /\ workers = IF allow THEN size ELSE 0
    /\ capacity = IF allow THEN buff ELSE 0
    /\ cancelled = FALSE
    /\ jobs = <<>>
    /\ started = allow
    /\ wg = IF allow THEN size ELSE 0
    /\ wpc = [w \in Workers |-> IF allow /\ w <= size THEN "loop" ELSE "none"]

\* the pools a provider is configured with: <<ConcurrentPoolSize,
\* ConcurrentBufferSize>>: the defaults (no worker, no buffer), one worker
\* without and with a one-job buffer, and the largest pool of the model
PoolConfigs == {<<0, 0>>, <<1, 0>>, <<1, 1>>, <<MaxWorkers, MaxCap>>}

ProviderInit ==
    /\ \/ NewTelemetry(FALSE, 0, 0)
       \/ \E cfg \in PoolConfigs : NewTelemetry(TRUE, cfg[1], cfg[2])
    /\ lastOp = [id \in Ids |-> NoHandler]
    /\ Quiet

\* the registry calls the clients of ProviderSpec make
ProviderLists == {<<hA2, hM>>, <<hB>>}

\* no caller is inside TriggerEvent
NoCallInProgress == \A c \in Callers : tpc[c] \in {"idle", "returned"}

ProviderNext ==
    \/ \E hs \in ProviderLists : AddHandlers(hs)
    \/ RemoveHandlers(<<hB>>)
    \/ \E c \in Callers : trace[c] = <<>> /\ NoCallInProgress /\ TriggerCall(c)
    \/ \E c \in Callers : TriggerInvoke(c)
    \/ \E c \in Callers : TriggerSubmit(c)
    \/ \E c \in Callers : TriggerCallEnd(c)
    \/ \E c \in Callers : TriggerReturn(c)
    \/ \E w \in Workers : WorkerSelect(w) /\ UNCHANGED provVars
    \/ \E w \in Workers : WorkerCallback(w)
    \/ \E w \in Workers : WorkerCheckCtx(w) /\ UNCHANGED provVars

\* The provider: registry calls from any goroutine, TriggerEvent calls made
\* one after the other (one per caller; the callbacks of an earlier call may
\* still be in the pool), and the workers of its pool. (The provider never
\* stops its pool.)
ProviderSpec == ProviderInit /\ [][ProviderNext]_vars

\* The provider built with AllowConcurrentExecution = false (the default
\* configuration): there is no pool, callbacks run on the caller. Each caller
\* makes one TriggerEvent call, while other goroutines change the registry.
SyncInit ==
    /\ NewTelemetry(FALSE, 0, 0)
    /\ lastOp = [id \in Ids |-> NoHandler]
    /\ Quiet

SyncNext ==
    \/ \E hs \in HandlerLists : AddHandlers(hs)
    \/ \E hs \in HandlerLists : RemoveHandlers(hs)
    \/ \E c \in Callers : trace[c] = <<>> /\ TriggerCall(c)
    \/ \E c \in Callers : TriggerInvoke(c)
    \/ \E c \in Callers : TriggerCallEnd(c)
    \/ \E c \in Callers : TriggerReturn(c)

SyncSpec == SyncInit /\ [][SyncNext]_vars

\* TriggerSpan calls on a provider with a Mailer registered by the client.
SpanNext ==
    \/ AddHandlers(<<hM>>)
    \/ \E c \in Callers, event \in SpanEvents, body \in Bodies :
         SpanStart(c, event, body)
    \/ \E c \in Callers : SpanBody(c)
    \/ \E c \in Callers : SpanBodyEnd(c)
    \/ \E c \in Callers : SpanReturn(c)
    \/ \E c \in Callers : TriggerInvoke(c)
    \/ \E c \in Callers : TriggerSubmit(c)
    \/ \E c \in Callers : TriggerCallEnd(c)
    \/ \E c \in Callers : TriggerReturn(c)
    \/ \E w \in Workers : WorkerSelect(w) /\ UNCHANGED provVars
    \/ \E w \in Workers : WorkerCallback(w)
    \/ \E w \in Workers : WorkerCheckCtx(w) /\ UNCHANGED provVars

SpanSpec == ProviderInit /\ [][SpanNext]_vars

\* A Mailer registered with a provider: events triggered by clients, the
\* deliveries to the Mailer, and a test goroutine calling AssertReceived.
\* the names a test with a Mailer triggers: two names the Mailer is bound to
MailNames == {"e1", "e1.start"}

MailNext ==
    \/ AddHandlers(<<hM>>)
    \/ \E c \in Callers : TriggerCall(c) /\ targs'[c].event \in MailNames
    \/ \E c \in Callers : TriggerInvoke(c)
    \/ \E c \in Callers : TriggerSubmit(c)
    \/ \E c \in Callers : TriggerCallEnd(c)
    \/ \E c \in Callers : TriggerReturn(c)
    \/ \E w \in Workers : WorkerSelect(w) /\ UNCHANGED provVars
    \/ \E w \in Workers : WorkerCallback(w)
    \/ \E w \in Workers : WorkerCheckCtx(w) /\ UNCHANGED provVars
    \/ \E a \in Assertions : AssertReceived(a[1], a[2]) /\ UNCHANGED refuted

\* The provider of a test with a Mailer: the default configuration
\* (synchronous), or concurrent execution with a pool of MaxWorkers workers
\* and a buffer of MaxCap jobs.
MailInit ==
    /\ \E allow \in BOOLEAN :
         NewTelemetry(allow, IF allow THEN MaxWorkers ELSE 0,
                      IF allow THEN MaxCap ELSE 0)
    /\ lastOp = [id \in Ids |-> NoHandler]
    /\ Quiet

MailSpec == MailInit /\ [][MailNext]_vars

\* the waiting assertions a test makes: any occurrence of "e1", two
\* occurrences of "e1", any occurrence of the never delivered "e3"
WaitAssertions == {<<"e1", "any">>, <<"e1", "two">>, <<"e3", "any">>}

\* A test with a Mailer on a provider with the default configuration
\* (synchronous) to which it was added before anything else: one goroutine
\* triggers events, the test goroutine makes one AssertReceive or
\* RefuteReceive call and, before or after it, one RefuteReceived call, and
\* time passes.
WaitInit ==
    /\ NewPool(0, 0)
    /\ started = FALSE
    /\ wpc = [w \in Workers |-> "none"]
    /\ concurrent = FALSE
    /\ handlers = PutAll([id \in Ids |-> NoHandler], <<hM>>)
    /\ lastOp = handlers
    /\ Quiet

WaitNext ==
    \/ TriggerCall(1) /\ targs'[1].event \in MailNames
    \/ \E c \in Callers : TriggerInvoke(c)
    \/ \E c \in Callers : TriggerCallEnd(c)
    \/ \E c \in Callers : TriggerReturn(c)
    \/ \E a \in WaitAssertions, timeout \in Timeouts, refute \in BOOLEAN :
         WaitStart(a[1], a[2], timeout, refute)
    \/ WaitSelect
    \/ WaitRead
    \/ WaitPred
    \/ Tick
    \/ \E a \in WaitAssertions :
         /\ wait.pc = "returned"
         /\ refuted = NoRefute
         /\ RefuteReceived(a[1], a[2])

WaitSpec == WaitInit /\ [][WaitNext]_vars

\* The scheduler runs every runnable goroutine again and again, and time
\* goes on.
WaitLiveSpec ==
    /\ WaitSpec
    /\ WF_vars(WaitSelect) /\ WF_vars(WaitRead) /\ WF_vars(WaitPred)
    /\ WF_vars(Tick)
    /\ \A c \in Callers : WF_vars(TriggerInvoke(c) \/ TriggerCallEnd(c)
                                     \/ TriggerReturn(c))

\* A provider, synchronous or with a pool, with handlers that call back
\* into it: clients register handlers, and one TriggerEvent("e1") call is
\* made.
ReentryInit ==
    /\ \/ NewTelemetry(FALSE, 0, 0)
       \/ \E cfg \in PoolConfigs : NewTelemetry(TRUE, cfg[1], cfg[2])
    /\ lastOp = [id \in Ids |-> NoHandler]
    /\ Quiet

\* the handlers the clients of ReentrySpec register
ReentryHandlers == {hA1, hRa, hRr, hRt}

ReentryNext ==
    \/ \E h \in ReentryHandlers : AddHandlers(<<h>>)
    \/ trace[1] = <<>> /\ TriggerCall(1) /\ targs'[1].event = "e1"
    \/ \E c \in Callers : TriggerInvoke(c)
    \/ \E c \in Callers : TriggerSubmit(c)
    \/ \E c \in Callers : TriggerCallEnd(c) /\ ReDone(Current(c))
    \/ \E c \in Callers : TriggerReturn(c)
    \/ \E w \in Workers : WorkerSelect(w) /\ UNCHANGED provVars
    \/ \E w \in Workers : WorkerCallback(w) /\ ReDone(hand[w])
    \/ \E w \in Workers : WorkerCheckCtx(w) /\ UNCHANGED provVars
    \/ \E t \in Tasks : ReAddHandlers(t)
    \/ \E t \in Tasks : ReRemoveHandlers(t)
    \/ \E t \in Tasks : ReTriggerResolve(t)
    \/ \E t \in Tasks : ReTriggerInvoke(t)
    \/ \E t \in Tasks : ReTriggerSubmit(t)
    \/ \E t \in Tasks : ReTriggerReturn(t)

ReentrySpec == ReentryInit /\ [][ReentryNext]_vars

\* The scheduler runs every goroutine that can take a step: the caller of
\* TriggerEvent, the workers, and the callbacks in progress.
ReentryLiveSpec ==
    /\ ReentrySpec
    /\ \A c \in Callers :
         WF_vars(\/ TriggerInvoke(c) \/ TriggerSubmit(c) \/ TriggerReturn(c)
                 \/ TriggerCallEnd(c) /\ ReDone(Current(c)))
    /\ \A w \in Workers :
         WF_vars(\/ WorkerSelect(w) /\ UNCHANGED provVars
                 \/ WorkerCallback(w) /\ ReDone(hand[w])
                 \/ WorkerCheckCtx(w) /\ UNCHANGED provVars)
    /\ \A t \in Tasks : WF_vars(Reenter(t))

\* A provider in concurrent mode whose pool has no worker (the default
\* ConcurrentPoolSize) or, to compare, one worker, with every buffer size of
\* the model.
NoWorkerConfigs == {0, 1} \X (0..MaxCap)

NoWorkerInit ==
    /\ \E cfg \in NoWorkerConfigs : NewTelemetry(TRUE, cfg[1], cfg[2])
    /\ lastOp = [id \in Ids |-> NoHandler]
    /\ Quiet

\* the registry calls the clients of NoWorkerSpec make
NoWorkerLists == {<<hA2>>, <<hB>>}

NoWorkerNext ==
    \/ \E hs \in NoWorkerLists : AddHandlers(hs)
    \/ \E c \in Callers : trace[c] = <<>> /\ NoCallInProgress /\ TriggerCall(c)
    \/ \E c \in Callers : TriggerInvoke(c)
    \/ \E c \in Callers : TriggerSubmit(c)
    \/ \E c \in Callers : TriggerReturn(c)
    \/ \E w \in Workers : WorkerSelect(w) /\ UNCHANGED provVars
    \/ \E w \in Workers : WorkerCallback(w)
    \/ \E w \in Workers : WorkerCheckCtx(w) /\ UNCHANGED provVars

NoWorkerSpec == NoWorkerInit /\ [][NoWorkerNext]_vars

\* ---- AddHandlers / RemoveHandlers statement by statement, called from
\* several goroutines while TriggerEvent runs on another ----
RegistryFrame ==
    /\ UNCHANGED <<concurrent, tpc, targs, tfuncs, ti, inv, trace, spanVars,
                   mailVars, nest, mmu, pcall, hist>>
    /\ UNCHANGED poolVars

\* what a whole call op(hs...) makes of the registry r
ApplyOp(op, r, hs) == IF op = "add" THEN PutAll(r, hs) ELSE DeleteAll(r, hs)

\* t.mu.Lock(); defer t.mu.Unlock()
RegistryLock(g, op, hs) ==
    /\ rcall[g].pc = "idle"
    /\ CanLock(mu)
    /\ mu' = Lock(mu)
    /\ rcall' = [rcall EXCEPT ![g] = [pc |-> "loop", op |-> op, hs |-> hs,
                                      i |-> 1, before |-> handlers]]
    /\ UNCHANGED <<handlers, lastOp>>
    /\ RegistryFrame

\* one iteration of for _, handler := range handlers:
\* t.handlers[handler.ID()] = handler, or delete(t.handlers, handler.ID())
RegistryStep(g) ==
    /\ rcall[g].pc = "loop"
    /\ rcall[g].i <= Len(rcall[g].hs)
    /\ LET h == rcall[g].hs[rcall[g].i]
       IN  /\ handlers' = IF rcall[g].op = "add" THEN PutHandler(handlers, h)
                          ELSE DeleteHandler(handlers, h)
           /\ lastOp' = [lastOp EXCEPT ![h.id] = IF rcall[g].op = "add" THEN h
                                                 ELSE NoHandler]
    /\ rcall' = [rcall EXCEPT ![g].i = @ + 1]
    /\ UNCHANGED mu
    /\ RegistryFrame

\* return nil: the deferred t.mu.Unlock() runs
RegistryUnlock(g) ==
    /\ rcall[g].pc = "loop"
    /\ rcall[g].i > Len(rcall[g].hs)
    /\ mu' = Unlock(mu)
    /\ rcall' = [rcall EXCEPT ![g] = NoRegCall]
    /\ UNCHANGED <<handlers, lastOp>>
    /\ RegistryFrame

\* the lists the registry calls of AtomSpec pass: two handlers each, so that
\* a call is part-way after its first iteration
AtomLists == {<<hA2, hB>>, <<hB, hA1>>}

AtomInit ==
    /\ NewTelemetry(FALSE, 0, 0)
    /\ lastOp = [id \in Ids |-> NoHandler]
    /\ Quiet

AtomNext ==
    \/ \E g \in Registrars, op \in {"add", "remove"}, hs \in AtomLists :
         RegistryLock(g, op, hs)
    \/ \E g \in Registrars : RegistryStep(g)
    \/ \E g \in Registrars : RegistryUnlock(g)
    \/ \E c \in Callers : trace[c] = <<>> /\ TriggerCall(c)
    \/ \E c \in Callers : TriggerInvoke(c)
    \/ \E c \in Callers : TriggerCallEnd(c)
    \/ \E c \in Callers : TriggerReturn(c)

\* Registry calls from two goroutines, each a Lock, a loop and an Unlock,
\* while TriggerEvent is called on a third.
AtomSpec == AtomInit /\ [][AtomNext]_vars

\* ---- Mailer.AssertReceived statement by statement, with predicates that
\* call back into the provider or the Mailer. The test goroutine is caller 1:
\* it triggers events and makes the assertion. ----
\* the predicates: one that looks at the snapshot, one that calls
\* TriggerEvent(event, ...) on the provider the Mailer is registered with,
\* one that calls m.AssertReceived(event, ...) on the same Mailer
CallingPreds == {"any", "trigger", "nested"}

AssertFrame ==
    /\ UNCHANGED <<concurrent, handlers, lastOp, tpc, targs, tfuncs, ti, inv,
                   trace, spanVars, mailVars, mu, nest, rcall, hist>>
    /\ UNCHANGED poolVars

\* Mutant of AssertRead: m.mu.RUnlock() is deferred to the return of
\* AssertReceived, so the predicate runs under the read lock.
AssertRead_DeferUnlock(event, pred) ==
    /\ pcall.pc = "none"
    /\ tpc[1] \in {"idle", "returned"}
    /\ pred = "trigger" => (Calls < MaxCalls /\ Idle # {})
    /\ CanRLock(mmu)
    /\ LET ok == event \in DOMAIN mailbox
           box == IF ok THEN mailbox[event] ELSE <<>>
       IN  /\ mmu' = IF ok THEN RLock(mmu) ELSE RUnlock(RLock(mmu))
           /\ pcall' = [pc |-> IF ok THEN "pred" ELSE "returned",
                        event |-> event, pred |-> pred, box |-> box,
                        began |-> Len(trace[1]), inner |-> "none",
                        result |-> FALSE]
    /\ AssertFrame

\* m.mu.RLock(); mailbox, ok := m.mailbox[event]; m.mu.RUnlock();
\* if !ok { return false }; otherwise mailboxFunc(event, mailbox...) is
\* entered. (A predicate that triggers an event is given to the assertion
\* only while the model has a call and an invocation record left for it.)
AssertRead(event, pred) ==
    /\ pcall.pc = "none"
    /\ tpc[1] \in {"idle", "returned"}
    /\ pred = "trigger" => (Calls < MaxCalls /\ Idle # {})
    /\ CanRLock(mmu)
    /\ LET ok == event \in DOMAIN mailbox
           box == IF ok THEN mailbox[event] ELSE <<>>
       IN  /\ mmu' = RUnlock(RLock(mmu))
           /\ pcall' = [pc |-> IF ok THEN "pred" ELSE "returned",
                        event |-> event, pred |-> pred, box |-> box,
                        began |-> Len(trace[1]), inner |-> "none",
                        result |-> FALSE]
    /\ AssertFrame

\* the test goroutine calls TriggerEvent outside an assertion
TestTrigger ==
    /\ pcall.pc # "pred"
    /\ TriggerCall(1)
    /\ targs'[1].event \in MailNames

\* the predicate calls t.TriggerEvent(event, ...): the steps of the call are
\* those of caller 1
PredTrigger ==
    /\ pcall.pc = "pred"
    /\ pcall.pred = "trigger"
    /\ Len(trace[1]) = pcall.began
    /\ TriggerCall(1)
    /\ targs'[1].event = pcall.event

\* the predicate calls m.AssertReceived(event, any): m.mu.RLock(); mailbox,
\* ok := m.mailbox[event]; m.mu.RUnlock(); the inner predicate is applied
PredNested ==
    /\ pcall.pc = "pred"
    /\ pcall.pred = "nested"
    /\ pcall.inner = "none"
    /\ CanRLock(mmu)
    /\ mmu' = RUnlock(RLock(mmu))
    /\ pcall' = [pcall EXCEPT !.inner =
                   IF /\ pcall.event \in DOMAIN mailbox
                      /\ MailboxFunc("any", pcall.event, mailbox[pcall.event])
                     THEN "true" ELSE "false"]
    /\ AssertFrame

\* the call the predicate makes has returned
PredCallOver ==
    CASE pcall.pred = "trigger" -> Len(trace[1]) > pcall.began /\ tpc[1] = "returned"
      [] pcall.pred = "nested" -> pcall.inner # "none"
      [] OTHER -> TRUE

\* what the predicate returns
PredValue ==
    CASE pcall.pred = "nested" -> pcall.inner = "true"
      [] pcall.pred = "trigger" -> Len(pcall.box) >= 1
      [] OTHER -> MailboxFunc(pcall.pred, pcall.event, pcall.box)

\* if mailboxFunc(event, mailbox...) { return true }; return false
PredReturn ==
    /\ pcall.pc = "pred"
    /\ PredCallOver
    /\ pcall' = [pcall EXCEPT !.pc = "returned", !.result = PredValue]
    /\ UNCHANGED mmu
    /\ AssertFrame

\* the names the test asserts on: one the Mailer is bound to, one it never
\* receives
AssertedNames == {"e1", "e3"}

\* the steps of the test goroutine that belong to its assertion
TestStep ==
    \/ \E event \in AssertedNames, pred \in CallingPreds : AssertRead(event, pred)
    \/ PredTrigger
    \/ PredNested
    \/ PredReturn

\* the provider of the test: synchronous, or with a pool of one worker and a
\* buffer of one job
PredInit ==
    /\ \E allow \in BOOLEAN :
         NewTelemetry(allow, IF allow THEN 1 ELSE 0, IF allow THEN 1 ELSE 0)
    /\ lastOp = [id \in Ids |-> NoHandler]
    /\ Quiet

PredNext ==
    \/ AddHandlers(<<hM>>)
    \/ TestTrigger
    \/ TestStep
    \/ \E c \in Callers : TriggerInvoke(c)
    \/ \E c \in Callers : TriggerSubmit(c)
    \/ \E c \in Callers : TriggerCallEnd(c)
    \/ \E c \in Callers : TriggerReturn(c)
    \/ \E w \in Workers : WorkerSelect(w) /\ UNCHANGED provVars
    \/ \E w \in Workers : WorkerCallback(w)
    \/ \E w \in Workers : WorkerCheckCtx(w) /\ UNCHANGED provVars

\* A test with a Mailer: the test goroutine triggers events and makes one
\* AssertReceived call whose predicate may call back; deliveries are made on
\* the test goroutine (synchronous mode) or on the worker.
PredSpec == PredInit /\ [][PredNext]_vars

\* The scheduler runs every goroutine that can take a step.
PredLiveSpec ==
    /\ PredSpec
    /\ WF_vars(TestStep)
    /\ \A c \in Callers :
         WF_vars(\/ TriggerInvoke(c) \/ TriggerSubmit(c)
                 \/ TriggerCallEnd(c) \/ TriggerReturn(c))
    /\ \A w \in Workers :
         WF_vars(\/ WorkerSelect(w) /\ UNCHANGED provVars
                 \/ WorkerCallback(w)
                 \/ WorkerCheckCtx(w) /\ UNCHANGED provVars)

TypeOK ==
    /\ workers \in 0..MaxWorkers
    /\ capacity \in 0..MaxCap
    /\ cancelled \in BOOLEAN
    /\ jobs \in Seq(Tasks)
    /\ wg \in 0..MaxWorkers
    /\ wpc \in [Workers -> {"none", "exited"} \cup Live]
    /\ hand \in [Workers -> Tasks \cup {NoTask}]
    /\ status \in [Tasks -> {"idle", "submitting", "queued", "running",
                             "rejected"} \cup Finished]
    /\ result \in [Tasks -> {"none", "true", "false"}]
    /\ stopPc \in {"idle", "waiting", "returned"}

(***************************************************************************)
(* Properties of the pool                                                  *)
(***************************************************************************)

\* Submit returned for job t in this step
Returned(t) == result[t] = "none" /\ result'[t] # "none"

\* t is the job of the next call of Submit
NextCall(t) == status[t] = "idle" /\ \A u \in 1..(t - 1) : status[u] # "idle"

\* a job offered now can be taken: room in the buffer or a waiting receiver
SlotFree == Len(jobs) < capacity \/ \E w \in Workers : wpc[w] = "parked"

\* C1: on a pool with started workers, Stop returns only after every job
\* accepted before the stop signal (still queued or running when Stop was
\* called) has finished executing.
C1_StopWaitsForAccepted ==
    (stopPc = "returned" /\ started /\ workers >= 1) =>
        \A t \in Tasks : atCancel[t] \in {"queued", "running"}
                            => status[t] \in Finished

\* C2: a Submit called after Stop has returned returns false, and its job is
\* neither enqueued nor ever executed.
C2_SubmitAfterStop ==
    \A t \in Tasks :
        (lateCall[t] /\ status[t] # "submitting") =>
            /\ result[t] = "false"
            /\ status[t] = "rejected"
            /\ runs[t] = 0
            /\ t \notin Range(jobs)
            /\ \A w \in Workers : hand[w] # t

C2_Witness ==
    \E t \in Tasks : lateCall[t] /\ result[t] = "false" /\ started

\* C3: Stop has not returned while a worker is alive or a job is running; a
\* running job is never cancelled (it stays running until it finishes); and
\* on a pool whose workers were never started Stop returns at once.
C3_StopWaitsForWorkers ==
    /\ [](stopPc = "returned" => LiveWorkers = {} /\ Running = {})
    /\ []((stopPc = "waiting" /\ ~started) => ENABLED StopWait)
    /\ [][\A t \in Tasks : status[t] = "running"
                              => status'[t] \in {"running"} \cup Finished]_vars

C3_Witness ==
    /\ stopPc = "returned"
    /\ \E t \in Tasks : atCancel[t] = "running" /\ status[t] \in Finished

\* C4 as stated: Submit never blocks, the queue never holds more than
\* capacity jobs, and a Submit that finds the queue at capacity returns false
\* and leaves the queue unchanged.
C4_Original ==
    /\ [](Len(jobs) <= capacity)
    /\ [](\A t \in Tasks : /\ NextCall(t) => ENABLED SubmitCheck(t)
                           /\ status[t] = "submitting" => ENABLED SubmitSend(t))
    /\ [][\A t \in Tasks : (Returned(t) /\ Len(jobs) = capacity)
                              => result'[t] = "false" /\ jobs' = jobs]_vars

\* C4 (amended): as C4_Original, but a Submit that finds the queue at
\* capacity is rejected only when no worker is parked waiting for a job (with
\* capacity 0 the job is handed straight to a parked worker).
C4_BoundedNonBlocking ==
    /\ [](Len(jobs) <= capacity)
    /\ [](\A t \in Tasks : /\ NextCall(t) => ENABLED SubmitCheck(t)
                           /\ status[t] = "submitting" => ENABLED SubmitSend(t))
    /\ [][\A t \in Tasks : (Returned(t) /\ Len(jobs) = capacity /\ Parked = {})
                              => result'[t] = "false" /\ jobs' = jobs]_vars
    /\ [][\A t \in Tasks : (Returned(t) /\ Len(jobs) = capacity /\ Parked # {})
                              => /\ capacity = 0
                                 /\ jobs' = jobs
                                 /\ result'[t] = "true"
                                 /\ \E w \in Parked : hand'[w] = t]_vars

C4_Witness ==
    /\ ~cancelled
    /\ capacity = MaxCap
    /\ Len(jobs) = capacity
    /\ \E t \in Tasks : result[t] = "false"

C6_AtMostKRunning ==
    /\ [](Cardinality(Running) <= IF started THEN workers ELSE 0)
    /\ [](\A t \in Tasks : status[t] = "queued" <=> t \in Range(jobs))
    /\ [][\A t \in Tasks :
            (status[t] # "running" /\ status'[t] = "running") =>
                \E w \in Workers : /\ wpc[w] \in {"loop", "parked"}
                                   /\ hand[w] = NoTask
                                   /\ wpc'[w] = "running"
                                   /\ hand'[w] = t]_vars

C6_Witness ==
    /\ workers = 2
    /\ Cardinality(Running) = 2
    /\ jobs # <<>>

\* C7: if Stop is never called and the pool has a started worker, every job
\* Submit accepted is eventually executed, and executed exactly once; a job
\* Submit rejected is never executed.
C7_AcceptedRunsOnce ==
    /\ [](\A t \in Tasks :
            /\ runs[t] <= 1
            /\ status[t] \in Finished => (runs[t] = 1 /\ result[t] = "true")
            /\ result[t] = "false" => runs[t] = 0)
    /\ \A t \in Tasks :
          (result[t] = "true" /\ started /\ workers >= 1)
              ~> (status[t] \in Finished)

C7_Witness ==
    /\ ~cancelled
    /\ workers = 1
    /\ \E t \in Tasks : status[t] = "done" /\ runs[t] = 1
    /\ \E t \in Tasks : result[t] = "false" /\ runs[t] = 0
    /\ \A t \in Tasks : result[t] = "true" => status[t] \in Finished

\* C8: a job that panics does not terminate its worker (the set of live
\* workers is unchanged by the panic, the worker goes on to its context
\* check), and a job accepted once some job has panicked is still executed
\* when Stop is not called.
C8_PanicContained ==
    /\ [][\A w \in Workers :
            (wpc[w] = "running" /\ status'[hand[w]] = "panicked") =>
                /\ wpc'[w] = "check"
                /\ LiveWorkers' = LiveWorkers
                /\ wg' = wg]_vars
    /\ \A t \in Tasks :
          (result[t] = "true" /\ \E u \in Tasks : status[u] = "panicked")
              ~> (status[t] \in Finished)

C8_Witness ==
    /\ workers = 1
    /\ capacity = 0
    /\ \E u \in Tasks : status[u] = "panicked"
    /\ \E t \in Tasks : status[t] = "running"

(***************************************************************************)
(* Properties of the provider                                              *)
(***************************************************************************)

\* caller c resolves its callbacks in this step
Resolves(c) == trace'[c] # trace[c]

\* the positions of the binding list of handler h bound to the event
BoundTo(h, event) == {k \in DOMAIN h.regs : h.regs[k].Event = event}

\* C9: the registry holds, for every id, the handler of the latest
\* AddHandlers naming the id, or nothing if a RemoveHandlers naming it came
\* later (or the id was never added); what a TriggerEvent resolves, and then
\* invokes, are bindings of those handlers only, with their configs.
C9_LastWriteWins ==
    /\ [](\A id \in Ids : handlers[id] = lastOp[id])
    /\ [][\A c \in Callers : Resolves(c) =>
            \A i \in DOMAIN tfuncs'[c] :
                LET e == tfuncs'[c][i]
                    h == lastOp[e.id]
                IN  /\ h # NoHandler
                    /\ e.config = h.config
                    /\ \E k \in BoundTo(h, targs'[c].event) :
                          h.regs[k].Handler = e.handler]_vars
    /\ [](\A t \in Tasks : inv[t] # NoInv =>
            LET e == trace[inv[t].caller][inv[t].call].funcs[inv[t].idx]
            IN  /\ inv[t].id = e.id
                /\ inv[t].handler = e.handler
                /\ inv[t].config = e.config)

C9_Witness ==
    /\ handlers["a"] = hA2
    /\ handlers["b"] = NoHandler
    /\ \E t \in Tasks : inv[t].handler = "f1" /\ status[t] \in Finished
    /\ \E t \in Tasks : inv[t].handler = "g1" /\ status[t] \in Finished

\* C10: in synchronous mode, when TriggerEvent has returned, every callback
\* bound to the event in the registry at resolution time has been invoked
\* once and has completed, on the caller's goroutine (a callback starts only
\* in a step of its caller and never sits in the pool); none is pending or
\* running after the return.
C10_SyncCompletes ==
    /\ [][\A c \in Callers : Resolves(c) =>
            \A id \in Ids :
                Cardinality({i \in DOMAIN tfuncs'[c] : tfuncs'[c][i].id = id})
                    = Cardinality(BoundTo(handlers[id], targs'[c].event))]_vars
    /\ [](\A c \in Callers : tpc[c] = "returned" =>
            /\ \A i \in DOMAIN tfuncs[c] :
                  \E t \in Tasks : /\ inv[t].caller = c
                                   /\ inv[t].call = Len(trace[c])
                                   /\ inv[t].idx = i
                                   /\ inv[t].handler = tfuncs[c][i].handler
                                   /\ inv[t].event = targs[c].event
                                   /\ runs[t] = 1
                                   /\ status[t] \in Finished
            /\ \A t \in Tasks : inv[t].caller = c => status[t] \in Finished)
    /\ [](jobs = <<>> /\ \A w \in Workers : hand[w] = NoTask)
    /\ [][\A t \in Tasks : (status[t] # "running" /\ status'[t] = "running") =>
            /\ tpc[inv'[t].caller] = "exec"
            /\ tpc'[inv'[t].caller] = "call"]_vars

C10_Witness ==
    \E c \in Callers :
        /\ tpc[c] = "returned"
        /\ Len(tfuncs[c]) = 3
        /\ \E t \in Tasks : inv[t].caller = c /\ status[t] = "panicked"
        /\ \E t \in Tasks : inv[t].caller = c /\ status[t] = "done"

\* the invocations made so far for the call number k of caller c
InvocationsOf(c, k) == {t \in Tasks : inv[t].caller = c /\ inv[t].call = k}

\* every handler a client may register
AllHandlers == HandlerSet \cup {hM}

\* C11: in synchronous mode TriggerEvent(name) resolves, for every registered
\* handler, exactly its bindings whose event name equals name, one entry per
\* binding and in binding order, with that handler's config; when it has
\* returned each resolved binding has been invoked exactly once, with the
\* triggered name, measurement and metadata and the handler's config; and a
\* callback is only ever invoked for the exact name it is bound to.
C11_ExactMatchOncePerBinding ==
    /\ [][\A c \in Callers : Resolves(c) =>
            \A id \in Ids :
                LET h == handlers[id]
                    mine == SelectSeq(tfuncs'[c], LAMBDA e : e.id = id)
                    bound == SelectSeq(h.regs,
                                       LAMBDA r : r.Event = targs'[c].event)
                IN  /\ Len(mine) = Len(bound)
                    /\ \A i \in DOMAIN mine :
                          /\ mine[i].handler = bound[i].Handler
                          /\ mine[i].config = h.config]_vars
    /\ [](\A c \in Callers : tpc[c] = "returned" =>
            /\ \A i \in DOMAIN tfuncs[c] :
                  Cardinality({t \in InvocationsOf(c, Len(trace[c])) :
                                  inv[t].idx = i /\ runs[t] = 1}) = 1
            /\ \A t \in InvocationsOf(c, Len(trace[c])) :
                  inv[t].idx \in DOMAIN tfuncs[c])
    /\ [](\A t \in Tasks : inv[t] # NoInv =>
            /\ inv[t].event = trace[inv[t].caller][inv[t].call].event
            /\ inv[t].measurement = trace[inv[t].caller][inv[t].call].measurement
            /\ inv[t].metadata = trace[inv[t].caller][inv[t].call].metadata
            /\ inv[t].handler = tfuncs[inv[t].caller][inv[t].idx].handler
            /\ inv[t].config = tfuncs[inv[t].caller][inv[t].idx].config
            /\ \E h \in AllHandlers :
                  /\ h.id = inv[t].id
                  /\ h.config = inv[t].config
                  /\ \E k \in DOMAIN h.regs :
                        h.regs[k] = [Event |-> inv[t].event,
                                     Handler |-> inv[t].handler])

C11_Witness ==
    \E c \in Callers :
        /\ tpc[c] = "returned"
        /\ targs[c].event = "e1"
        /\ targs[c].measurement = [m |-> c, n |-> 1]
        /\ \E t, u, v \in InvocationsOf(c, 1) :
              /\ inv[t].handler = "g1" /\ inv[t].idx = 1
              /\ inv[u].handler = "g1" /\ inv[u].idx = 2
              /\ inv[v].handler = "f3" /\ inv[v].config = "cfgA2"
              /\ \A x \in {t, u, v} : runs[x] = 1 /\ status[x] \in Finished

\* no binding of a registered handler is bound to the name
NoMatch(event) == \A id \in Ids : BoundTo(handlers[id], event) = {}

C13_RejectedInvocationDropped ==
    /\ [](concurrent => \A c \in Callers :
            /\ tpc[c] = "send" => ENABLED TriggerSubmit(c)
            /\ tpc[c] = "exec" =>
                  (ENABLED TriggerInvoke(c) \/ ENABLED TriggerReturn(c))
            /\ tpc[c] \in {"idle", "exec", "send", "returned"})
    /\ [](concurrent => \A c \in Callers : tpc[c] = "returned" =>
            \A i \in DOMAIN tfuncs[c] :
                \E t \in InvocationsOf(c, Len(trace[c])) :
                    inv[t].idx = i /\ result[t] \in {"true", "false"})
    /\ [](concurrent => \A t \in Tasks : result[t] = "false" =>
            /\ status[t] = "rejected"
            /\ runs[t] = 0
            /\ t \notin Range(jobs)
            /\ \A w \in Workers : hand[w] # t)
    /\ [][concurrent => \A t \in Tasks :
            (Returned(t) /\ result'[t] = "false") =>
                /\ jobs' = jobs
                /\ hand' = hand
                /\ \A u \in Tasks \ {t} : status'[u] = status[u]]_vars

C13_Witness ==
    \E c \in Callers :
        /\ concurrent
        /\ tpc[c] = "returned"
        /\ \E t, u \in InvocationsOf(c, 1) :
              /\ inv[t].idx = 1 /\ result[t] = "false"
              /\ inv[u].idx = 2 /\ result[u] = "true" /\ status[u] = "done"
              /\ runs[t] = 0

\* C14: a callback that panics inside TriggerEvent is contained. The caller
\* never unwinds: TriggerEvent is never left by a panic and returns once
\* every resolved callback has been dealt with. In synchronous mode the step
\* in which a callback panics hands control back to the loop, which moves on
\* to the next resolved callback, so at the return every resolved callback
\* has been invoked. In concurrent mode the worker whose callback panics goes
\* back to its loop and stays counted in the wait group.
C14_CallbackPanicContained ==
    /\ [](\A c \in Callers : tpc[c] # "panicked")
    /\ [][\A c \in Callers :
            (tpc[c] = "call" /\ status'[Current(c)] = "panicked") =>
                /\ tpc'[c] = "exec"
                /\ ti'[c] = ti[c] + 1]_vars
    /\ [](~concurrent => \A c \in Callers : tpc[c] = "returned" =>
            \A i \in DOMAIN tfuncs[c] :
                \E t \in InvocationsOf(c, Len(trace[c])) :
                    inv[t].idx = i /\ status[t] \in Finished /\ runs[t] = 1)
    /\ [][\A w \in Workers :
            (wpc[w] = "running" /\ status'[hand[w]] = "panicked") =>
                /\ wpc'[w] = "check"
                /\ wg' = wg
                /\ LiveWorkers' = LiveWorkers]_vars

C14_Witness ==
    \E c \in Callers :
        /\ ~concurrent
        /\ tpc[c] = "returned"
        /\ \E t, u \in InvocationsOf(c, 1) :
              /\ inv[t].idx = 1 /\ status[t] = "panicked"
              /\ inv[u].idx = 2 /\ status[u] = "done"

\* the TriggerEvent calls made by the span of caller c, in call order (a
\* caller of SpanSpec makes no other call)
SpanTrace(c) == trace[c]

SpanEventsOf(c) == [i \in DOMAIN SpanTrace(c) |-> SpanTrace(c)[i].event]

\* C15: a TriggerSpan whose body completes normally never triggers
\* <name>.panic and is never left by a panic; when it has returned it has
\* triggered exactly <name>.start then <name>.end, the start measurement
\* holds start_time, and the end measurement is the body's measurement map
\* with end_time and duration = end_time - start_time >= 0 set.
C15_NormalSpanStartEnd ==
    \A c \in Callers :
        (spc[c] # "none" /\ ~span[c].body.panics) =>
            /\ spc[c] \notin {"panic", "panicked"}
            /\ \A i \in DOMAIN SpanTrace(c) :
                    SpanEventsOf(c)[i] # span[c].event \o ".panic"
            /\ spc[c] \in {"end", "returned"} =>
                  /\ SpanEventsOf(c) = <<span[c].event \o ".start",
                                         span[c].event \o ".end">>
                  /\ "start_time" \in DOMAIN SpanTrace(c)[1].measurement
                  /\ LET m == SpanTrace(c)[2].measurement
                         b == span[c].body.measurement
                     IN  /\ DOMAIN m = DOMAIN b \cup {"duration", "end_time"}
                         /\ \A k \in DOMAIN b \ {"duration", "end_time"} :
                                m[k] = b[k]
                         /\ m["duration"] =
                                m["end_time"] - SpanTrace(c)[1].measurement["start_time"]
                         /\ m["duration"] >= 0

\* C16: a TriggerSpan whose body panics never triggers <name>.end and never
\* returns a result. Once the deferred function has run, the span has
\* triggered exactly <name>.start then <name>.panic, the latter with an empty
\* measurement and a metadata map holding error (the value the body
\* panicked with), errorTime and stackTrace. The panic is raised again, with
\* the same value, only when TriggerEvent(<name>.panic) has returned.
C16_PanickingSpan ==
    \A c \in Callers :
        (spc[c] # "none" /\ span[c].body.panics) =>
            /\ spc[c] \notin {"end", "returned"}
            /\ \A i \in DOMAIN SpanTrace(c) :
                    SpanEventsOf(c)[i] # span[c].event \o ".end"
            /\ span[c].result = "" /\ span[c].err = ""
            /\ spc[c] \in {"start", "body"} =>
                  SpanEventsOf(c) = <<span[c].event \o ".start">>
            /\ spc[c] \in {"panic", "panicked"} =>
                  /\ SpanEventsOf(c) = <<span[c].event \o ".start",
                                         span[c].event \o ".panic">>
                  /\ SpanTrace(c)[2].measurement = EmptyMap
                  /\ DOMAIN SpanTrace(c)[2].metadata =
                        {"error", "errorTime", "stackTrace"}
                  /\ SpanTrace(c)[2].metadata["error"] = span[c].body.fault
                  /\ span[c].fault = span[c].body.fault
            /\ spc[c] = "panicked" => tpc[c] = "returned"

C16_Witness ==
    \E c \in Callers :
        /\ spc[c] = "panicked"
        /\ span[c].body.panics
        /\ span[c].event = "e1"
        /\ "e1.start" \in DOMAIN mailbox
        /\ "e1.panic" \in DOMAIN mailbox
        /\ mailbox["e1.panic"][1].Metadata["error"] = "boom"

\* C17: the span body runs on the goroutine of the caller of TriggerSpan,
\* between its TriggerEvent calls: while the body runs the caller is inside
\* no TriggerEvent, the only call made so far is <name>.start and it has
\* returned, and <name>.end / <name>.panic are called only once the body has
\* ended. In synchronous mode every callback resolved for <name>.start has
\* then completed before the body begins, and no callback of
\* <name>.end / <name>.panic exists before the body has ended.
C17_SpanBodyBetweenEvents ==
    \A c \in Callers :
        /\ spc[c] = "body" =>
              /\ tpc[c] = "returned"
              /\ SpanEventsOf(c) = <<span[c].event \o ".start">>
        /\ spc[c] = "start" =>
              SpanEventsOf(c) = <<span[c].event \o ".start">>
        /\ Len(SpanTrace(c)) >= 2 =>
              /\ spc[c] \in {"end", "panic", "returned", "panicked"}
              /\ SpanEventsOf(c)[1] = span[c].event \o ".start"
              /\ SpanEventsOf(c)[2] \in {span[c].event \o ".end",
                                          span[c].event \o ".panic"}
        /\ (~concurrent /\ spc[c] = "body") =>
              \A i \in DOMAIN SpanTrace(c)[1].funcs :
                  \E t \in InvocationsOf(c, 1) :
                      inv[t].idx = i /\ status[t] \in Finished
        /\ (~concurrent /\ spc[c] \in {"start", "body"}) =>
              \A t \in Tasks :
                  inv[t].caller = c =>
                      /\ inv[t].call = 1
                      /\ inv[t].event = span[c].event \o ".start"

C17_Witness ==
    \E c \in Callers :
        /\ ~concurrent
        /\ spc[c] = "body"
        /\ Len(SpanTrace(c)[1].funcs) = 1
        /\ "e1.start" \in DOMAIN mailbox
        /\ DOMAIN mailbox = {"e1.start"}

\* the log the Mailer holds for a name (empty when the name has no entry)
LogOf(name) == IF name \in DOMAIN mailbox THEN mailbox[name] ELSE <<>>

\* the invocations of the Mailer's callback that have completed, for a name,
\* in the order in which they completed
DeliveredFor(name) == SelectSeq(mlog, LAMBDA t : inv[t].event = name)

\* the TriggerEvent(name) calls of caller c that resolved the Mailer's
\* callback, in call order
MailCalls(c, name) ==
    SelectSeq(trace[c], LAMBDA e : /\ e.event = name
                                   /\ \E i \in DOMAIN e.funcs :
                                         e.funcs[i].handler = "mail")

\* C18: for every name the Mailer's log is exactly the occurrences delivered
\* to its callback for that name, in delivery order: each completed
\* invocation of the callback is logged once, under its own name, with the
\* measurement and metadata of its call, and nothing else is logged. With
\* synchronous dispatch from one caller, between calls the log of a name has
\* one entry per TriggerEvent(name) call that reached the Mailer, in call
\* order.
C18_MailboxLogIsDeliveries ==
    /\ \A name \in Names :
          /\ Len(LogOf(name)) = Len(DeliveredFor(name))
          /\ \A i \in DOMAIN LogOf(name) :
                LogOf(name)[i] = MailData(inv[DeliveredFor(name)[i]])
    /\ DOMAIN mailbox = {inv[mlog[i]].event : i \in DOMAIN mlog}
    /\ \A i, j \in DOMAIN mlog : mlog[i] = mlog[j] => i = j
    /\ \A t \in Tasks :
          (inv[t].handler = "mail" /\ status[t] \in Finished) <=>
              (\E i \in DOMAIN mlog : mlog[i] = t)
    /\ \A c \in Callers :
          (/\ ~concurrent
           /\ tpc[c] \in {"idle", "returned"}
           /\ \A d \in Callers \ {c} : trace[d] = <<>>) =>
              \A name \in Names :
                  /\ Len(LogOf(name)) = Len(MailCalls(c, name))
                  /\ \A i \in DOMAIN LogOf(name) :
                        /\ LogOf(name)[i].Measurement =
                              MailCalls(c, name)[i].measurement
                        /\ LogOf(name)[i].Metadata =
                              MailCalls(c, name)[i].metadata

C18_Witness ==
    \E c \in Callers :
        /\ ~concurrent
        /\ tpc[c] = "returned"
        /\ Len(trace[c]) = 2
        /\ Len(LogOf("e1")) = 2
        /\ LogOf("e1")[1].Measurement.n = 1
        /\ LogOf("e1")[2].Measurement.n = 2

PrefixOf(s, t) == Len(s) <= Len(t) /\ SubSeq(t, 1, Len(s)) = s

\* the invocations of the Mailer's callback for a name that have completed
CompletedFor(name) ==
    {t \in Tasks : /\ inv[t].handler = "mail"
                    /\ inv[t].event = name
                    /\ status[t] \in Finished}

\* C19: deliveries made by pool workers (or by callers) while assertions
\* read the Mailer lose no append: in every state the log of a name is as
\* long as the number of deliveries completed for it. The log is
\* append-only: no step changes or removes a logged occurrence, so the
\* snapshot an assertion has read is a prefix of the log from then on, and
\* of every snapshot read later for the same name.
C19_NoLostAppend ==
    /\ [](\A name \in Names :
            /\ Len(LogOf(name)) = Cardinality(CompletedFor(name))
            /\ PrefixOf(seen[name], LogOf(name)))
    /\ [][\A name \in DOMAIN mailbox :
             /\ name \in DOMAIN mailbox'
             /\ PrefixOf(mailbox[name], mailbox'[name])]_vars
    /\ [][seen' # seen =>
             \A name \in Names : PrefixOf(seen[name], seen'[name])]_vars

C19_Witness ==
    /\ concurrent
    /\ Len(seen["e1"]) = 1
    /\ Len(LogOf("e1")) = 2
    /\ seen["e1"][1].Measurement.n = 2
    /\ LogOf("e1")[2].Measurement.n = 1

\* a step in which an assertion call has been made and has left its record
AssertStep == asserted' # asserted \/ seen' # seen

\* C20: AssertReceived makes one check of the log as it is when called and
\* never waits (the call can always complete). It answers false when the
\* name has no log, whatever the predicate, and otherwise the value of the
\* predicate on the whole log of the name, oldest occurrence first. It
\* leaves the log as it found it.
C20_AssertReceivedSnapshot ==
    /\ [](\A a \in Assertions : ENABLED AssertReceived(a[1], a[2]))
    /\ [][AssertStep =>
            /\ asserted'.event \notin DOMAIN mailbox => ~asserted'.result
            /\ asserted'.event \in DOMAIN mailbox =>
                  /\ asserted'.box = mailbox[asserted'.event]
                  /\ asserted'.result =
                        MailboxFunc(asserted'.pred, asserted'.event,
                                    mailbox[asserted'.event])
            /\ mailbox' = mailbox
            /\ mlog' = mlog]_vars

C20_Witness ==
    /\ asserted.event = "e1"
    /\ asserted.pred = "first"
    /\ Len(asserted.box) = 2
    /\ asserted.box[1].Measurement.n = 2
    /\ asserted.box[2].Measurement.n = 1
    /\ ~asserted.result

(***************************************************************************)
(* Properties of the waiting assertions                                    *)
(***************************************************************************)

\* the log of the waited name as it was at the end of period d: with the
\* Mailer registered from the start and synchronous dispatch, one
\* occurrence per TriggerEvent call on the name made by then
LogAt(d) ==
    LET calls == SelectSeq(trace[1], LAMBDA e : e.event = wait.event /\ e.at <= d)
    IN  [i \in DOMAIN calls |-> [Measurement |-> calls[i].measurement,
                                 Metadata |-> calls[i].metadata]]

\* C21 as stated: AssertReceive returns true only after a check that found
\* the log of the name non-empty and the predicate true on it, and it
\* returns false whenever no occurrence of the name was delivered before the
\* timeout elapsed.
C21_Original ==
    wait.pc = "returned" =>
        /\ wait.result =>
              /\ wait.hit
              /\ wait.box # <<>>
              /\ MailboxFunc(wait.pred, wait.event, wait.box)
              /\ PrefixOf(wait.box, LogOf(wait.event))
        /\ wait.atFire = "absent" => ~wait.result

\* C21, amended: AssertReceive returns true only after a check, begun
\* before the timeout elapsed, that found the log of the name non-empty and
\* the predicate true on it; it returns false, whatever the predicate, when
\* no occurrence of the name has been delivered by the time it returns
\* (occurrences of other names do not count). With no occurrence delivered
\* before the timeout elapsed it returns true only through the one check
\* that was already under way when the timeout elapsed.
C21_AssertReceiveTrueOnlyOnMatch ==
    wait.pc = "returned" =>
        /\ wait.result =>
              /\ wait.hit
              /\ wait.box # <<>>
              /\ MailboxFunc(wait.pred, wait.event, wait.box)
              /\ PrefixOf(wait.box, LogOf(wait.event))
              /\ wait.began < wait.deadline
        /\ wait.event \notin DOMAIN mailbox => ~wait.result
        /\ (wait.atFire = "absent" /\ wait.result) =>
              /\ wait.began < wait.deadline
              /\ wait.deadline <= now
              /\ ~wait.polled

C21_Witness ==
    /\ wait.pc = "returned"
    /\ ~wait.result
    /\ wait.event = "e1"
    /\ wait.pred = "any"
    /\ wait.atFire = "absent"
    /\ "e1.start" \in DOMAIN mailbox
    /\ "e1" \notin DOMAIN mailbox

\* the predicate holds of the log of the waited name as it was at the end
\* of period d
MatchedAt(d) == LogAt(d) # <<>> /\ MailboxFunc(wait.pred, wait.event, LogAt(d))

\* an occurrence that satisfies the predicate was delivered before the
\* timeout elapsed
MatchedAtFire ==
    /\ wait.atFire = "present"
    /\ MailboxFunc(wait.pred, wait.event, wait.fireBox)

\* C22 as stated, its part on the answer: AssertReceive returns true
\* whenever an occurrence satisfying the predicate was delivered for the
\* name before the timeout elapsed.
C22_Original ==
    (wait.pc = "returned" /\ MatchedAtFire) => wait.result

\* C22, amended: AssertReceive returns once its timeout has elapsed, and it
\* returns true whenever the predicate holds of the log of the name at the
\* end of a period (50 ms) that is followed by a further period before the
\* timeout elapses, which leaves the call one full pass through its loop.
\* With the only delivery in the third period (100 ms after the start), a
\* call made at the start returns false with a timeout of one period (50 ms)
\* and true with the long timeout.
C22_AssertReceiveTimeout ==
    /\ [](wait.pc \in {"select", "read", "pred"} => <>(wait.pc = "returned"))
    /\ [](wait.pc = "returned" =>
            /\ (\E d \in 0..MaxClock : d + 1 < wait.deadline /\ MatchedAt(d))
                  => wait.result
            /\ ~wait.result => now >= wait.deadline
            /\ (/\ wait.pred = "any"
                /\ LogAt(1) = <<>> /\ LogAt(2) # <<>>) =>
                  /\ wait.deadline = 1 => ~wait.result
                  /\ wait.deadline = MaxClock => wait.result)

C22_Witness ==
    /\ wait.pc = "returned"
    /\ wait.result
    /\ wait.pred = "any"
    /\ wait.deadline = MaxClock
    /\ LogAt(1) = <<>>
    /\ Len(LogAt(2)) = 1
    /\ now = 3

\* what AssertReceived answers in the current state of the mailbox
AssertAnswer(event, pred) ==
    /\ event \in DOMAIN mailbox
    /\ MailboxFunc(pred, event, mailbox[event])

\* C23 as stated, its last clause: RefuteReceive returns false whenever a
\* matching occurrence arrives within the window.
C23_Original ==
    (wait.pc = "returned" /\ wait.refute /\ MatchedAtFire) => ~wait.ret

\* C23, amended: RefuteReceived returns the negation of what AssertReceived
\* returns in the same state of the mailbox, true for a name never
\* delivered; RefuteReceive returns the negation of the answer of
\* AssertReceive over the same window: false exactly when one of its checks
\* found a match, at once and without waiting for the timeout, and
\* certainly when the match was in the log a whole period before the
\* timeout; true only once the timeout has elapsed.
C23_RefuteIsNegation ==
    /\ [][refuted' # refuted =>
            /\ refuted'.result = ~AssertAnswer(refuted'.event, refuted'.pred)
            /\ refuted'.result = ~asserted'.result
            /\ refuted'.event \notin DOMAIN mailbox => refuted'.result]_vars
    /\ [](wait.pc = "returned" =>
            /\ wait.refute => (wait.ret = ~wait.result)
            /\ ~wait.refute => (wait.ret = wait.result)
            /\ (wait.refute /\ ~wait.ret) =>
                  /\ wait.hit
                  /\ MailboxFunc(wait.pred, wait.event, wait.box)
            /\ (wait.refute /\ wait.ret) =>
                  /\ ~wait.hit
                  /\ now >= wait.deadline
            /\ (/\ wait.refute
                /\ \E d \in 0..MaxClock : d + 1 < wait.deadline /\ MatchedAt(d))
                  => ~wait.ret)

C23_Witness ==
    /\ wait.pc = "returned"
    /\ wait.refute
    /\ ~wait.ret
    /\ now < wait.deadline
    /\ refuted.event = "e3"
    /\ refuted.result

(***************************************************************************)
(* Properties of the provider's lifecycle and of its registry lock         *)
(***************************************************************************)

\* C24: a provider built with concurrent execution has its pool created and
\* its workers started when construction returns (and none otherwise), and
\* as long as the pool has not been stopped the provider has a teardown
\* that stops it.
C24_PoolStoppedAtTeardown ==
    /\ concurrent <=> started
    /\ ~concurrent => workers = 0
    /\ (concurrent /\ ~cancelled) => ENABLED (ProviderNext /\ cancelled')

\* a goroutine is inside TriggerEvent
InTriggerEvent(c) == tpc[c] \in {"exec", "call", "send"}

\* C25: the registry lock is free whenever a callback runs; a callback that
\* calls AddHandlers, RemoveHandlers or TriggerEvent on its own provider can
\* always take the next step of that call, in synchronous and in concurrent
\* mode; the callback ends and the outer TriggerEvent returns.
C25_ReentrantCallbacks ==
    /\ [](\A t \in Tasks : status[t] = "running" => mu = FreeMu)
    /\ [](\A t \in Tasks :
            (Reentering(t) /\ nest[t].pc # "done") => ENABLED Reenter(t))
    /\ \A t \in Tasks :
         [](Reentering(t) => <>(status[t] \in Finished /\ nest[t].pc = "done"))
    /\ \A c \in Callers : [](InTriggerEvent(c) => <>(tpc[c] = "returned"))

C25_Witness ==
    /\ concurrent
    /\ tpc[1] = "returned"
    /\ \E t, u \in Tasks :
         /\ inv[t].handler = "reTrigger"
         /\ status[t] = "done"
         /\ nest[t].pc = "done"
         /\ inv[u].caller = 0
         /\ inv[u].call = t
         /\ inv[u].handler = "f2"
         /\ status[u] = "done"

\* C26: a TriggerEvent resolves its callbacks once: the list never changes
\* during the call, no registry call touches it, every invocation made is
\* the resolved one whatever the registry holds by then, and every resolved
\* callback is invoked (or handed to the pool) even when its handler has
\* been removed meanwhile; a TriggerEvent that starts when the latest
\* registry call on an id was its removal resolves no callback of that id.
C26_RemovalVersusDispatch ==
    /\ [][\A c \in Callers :
            Len(trace'[c]) = Len(trace[c]) => tfuncs'[c] = tfuncs[c]]_vars
    /\ [][handlers' # handlers => (tfuncs' = tfuncs /\ inv' = inv)]_vars
    /\ [](\A t \in Tasks : inv[t] # NoInv =>
            /\ inv[t].id = trace[inv[t].caller][inv[t].call].funcs[inv[t].idx].id
            /\ inv[t].handler =
                  trace[inv[t].caller][inv[t].call].funcs[inv[t].idx].handler)
    /\ [](\A c \in Callers : tpc[c] = "returned" =>
            \A i \in DOMAIN tfuncs[c] :
                \E t \in InvocationsOf(c, Len(trace[c])) : inv[t].idx = i)
    /\ [][\A c \in Callers : Len(trace'[c]) > Len(trace[c]) =>
            \A id \in Ids : lastOp[id] = NoHandler =>
                \A k \in DOMAIN tfuncs'[c] : tfuncs'[c][k].id # id]_vars

C26_Witness ==
    /\ ~concurrent
    /\ handlers["b"] = NoHandler
    /\ lastOp["b"] = NoHandler
    /\ \E t \in Tasks :
         /\ inv[t].id = "b"
         /\ inv[t].idx = 2
         /\ status[t] = "running"

(***************************************************************************)
(* Properties of the pool's queue                                          *)
(***************************************************************************)

\* the jobs received so far are the first jobs accepted, in that order
FifoSoFar == PrefixOf(hist.picked, hist.accepted)

\* C27: jobs are received by the workers in the order in which Submit
\* accepted them: the jobs received so far are the jobs accepted first, in
\* the order of acceptance, and the jobs waiting in the buffer are the rest,
\* in that order; so with one worker the jobs run in the order of
\* acceptance, and no job starts while a job accepted before it is still
\* waiting.
C27_QueueIsFifo ==
    /\ FifoSoFar
    /\ hist.accepted = hist.picked \o jobs
    /\ \A i, j \in DOMAIN hist.accepted :
          (i < j /\ runs[hist.accepted[j]] > 0) =>
              /\ runs[hist.accepted[i]] > 0
              /\ status[hist.accepted[i]] # "queued"

C27_Witness ==
    /\ workers = 1
    /\ hist.accepted = <<2, 1, 3>>
    /\ hist.picked = <<2, 1, 3>>
    /\ \A t \in {1, 2, 3} : status[t] \in Finished

\* the jobs received after cancel(), by all workers
LateJobs ==
    LET RECURSIVE sum(_)
        sum(n) == IF n = 0 THEN 0 ELSE hist.late[n] + sum(n - 1)
    IN  sum(MaxWorkers)

PanicTriggered(c) ==
    \E i \in DOMAIN SpanTrace(c) :
        SpanEventsOf(c)[i] = span[c].event \o ".panic"

\* C28: a body that returns a non-nil error without panicking is a normal
\* return: the end event is triggered with the body's measurement and
\* metadata maps, the panic event is not, nothing is raised, and TriggerSpan
\* returns the body's result and error unchanged.
C28_ErrorIsNormalReturn ==
    \A c \in Callers :
        (/\ spc[c] # "none"
         /\ ~span[c].body.panics
         /\ span[c].body.err # "nil") =>
            /\ spc[c] \notin {"panic", "panicked"}
            /\ ~PanicTriggered(c)
            /\ spc[c] \in {"end", "returned"} =>
                  /\ SpanEventsOf(c) = <<span[c].event \o ".start",
                                         span[c].event \o ".end">>
                  /\ SpanTrace(c)[2].metadata = span[c].body.metadata
                  /\ \A k \in DOMAIN span[c].body.measurement
                                \ {"duration", "end_time"} :
                        SpanTrace(c)[2].measurement[k] =
                            span[c].body.measurement[k]
                  /\ span[c].result = span[c].body.result
                  /\ span[c].err = span[c].body.err

\* C29: the panic event is triggered, and a fault raised to the caller of
\* TriggerSpan, only when the body itself panicked: never for a body that
\* returned, whatever it returned, and never because a handler callback of
\* the start or end event panicked.
C29_PanicOnlyFromBody ==
    \A c \in Callers :
        (spc[c] \in {"panic", "panicked"} \/ PanicTriggered(c)) =>
            span[c].body.panics

(***************************************************************************)
(* Properties of a provider whose pool has no worker                       *)
(***************************************************************************)

\* the step hands an invocation to the channel or rejects it
Decided(t) == status[t] = "submitting" /\ result'[t] # "none"

\* C31: in concurrent mode with a pool of size 0 no callback is ever
\* executed; an invocation is accepted exactly when the buffer holds fewer
\* than capacity jobs, so the accepted ones stay in the buffer, at most
\* capacity of them, and every later one is rejected (all of them with
\* capacity 0); TriggerEvent never blocks and never fails, and returns.
C31_NoWorkerNoCallback ==
    /\ []((concurrent /\ workers = 0) =>
            /\ \A t \in Tasks : /\ runs[t] = 0
                                /\ status[t] \notin {"running"} \cup Finished
                                /\ result[t] = "true" <=> t \in Range(jobs)
            /\ Len(jobs) <= capacity
            /\ capacity = 0 => \A t \in Tasks : result[t] # "true"
            /\ \A c \in Callers :
                  /\ tpc[c] # "panicked"
                  /\ InTriggerEvent(c) =>
                        ENABLED (\/ TriggerInvoke(c) \/ TriggerSubmit(c)
                                 \/ TriggerReturn(c))
                  /\ tpc[c] = "returned" =>
                        \A i \in DOMAIN tfuncs[c] :
                            \E t \in InvocationsOf(c, Len(trace[c])) :
                                inv[t].idx = i /\ result[t] \in {"true", "false"})
    /\ [][(concurrent /\ workers = 0) =>
            \A t \in Tasks : Decided(t) =>
                (result'[t] = "true" <=> Len(jobs) < capacity)]_vars

C31_Witness ==
    /\ concurrent
    /\ workers = 0
    /\ capacity = 1
    /\ tpc[1] = "returned"
    /\ Len(tfuncs[1]) = 3
    /\ \E t, u, v \in InvocationsOf(1, 1) :
         /\ inv[t].idx = 1 /\ result[t] = "true" /\ status[t] = "queued"
         /\ inv[u].idx = 2 /\ result[u] = "false"
         /\ inv[v].idx = 3 /\ result[v] = "false"

\* ---- Properties of registry calls that run beside event resolution ----
\* the goroutines inside the loop of a registry call
InRegistryCall == {g \in Registrars : rcall[g].pc = "loop"}

\* some caller resolves an event in this step
ResolvesNow == \E c \in Callers : Len(trace'[c]) > Len(trace[c])

\* C32 (as stated): a TriggerEvent resolves against the registry as it was
\* before the whole AddHandlers / RemoveHandlers call or as it is after the
\* whole call, never against one in which only some of the handlers of the
\* call have been added or removed; and registry calls do not interleave:
\* while one is in its loop no other is, the registry holds exactly the
\* effect of its first iterations on the registry it started from, and when
\* it returns the registry is the one it started from with the whole list
\* applied.
C32_RegistryAtomicity ==
    /\ [](/\ Cardinality(InRegistryCall) <= 1
          /\ \A g \in InRegistryCall :
               handlers = ApplyOp(rcall[g].op, rcall[g].before,
                                  SubSeq(rcall[g].hs, 1, rcall[g].i - 1)))
    /\ [][ResolvesNow =>
            \A g \in InRegistryCall :
              handlers \in {rcall[g].before,
                            ApplyOp(rcall[g].op, rcall[g].before, rcall[g].hs)}]_vars
    /\ [][\A g \in Registrars :
            rcall[g].pc = "loop" /\ rcall'[g].pc = "idle" =>
              handlers' = ApplyOp(rcall[g].op, rcall[g].before, rcall[g].hs)]_vars

\* a registry call that added hA2 and hB has returned, TriggerEvent has
\* resolved "e1" against the registry it left and is still dispatching, and a
\* RemoveHandlers call has removed the first of its two handlers
C32_Witness ==
    /\ rcall[1].pc = "idle"
    /\ rcall[2].pc = "loop" /\ rcall[2].op = "remove" /\ rcall[2].i = 2
    /\ rcall[2].before = PutAll([id \in Ids |-> NoHandler], <<hA2, hB>>)
    /\ handlers # rcall[2].before
    /\ \E c \in Callers :
         /\ tpc[c] = "exec"
         /\ Len(trace[c]) = 1
         /\ trace[c][1].event = "e1"
         /\ Len(trace[c][1].funcs) = 3

\* ---- Properties of assertions whose predicate calls back ----
\* a delivery to the Mailer is in progress on the worker w / on the caller c
DeliveringWorker(w) == wpc[w] = "running" /\ inv[hand[w]].handler = "mail"

DeliveringCaller(c) == tpc[c] = "call" /\ inv[Current(c)].handler = "mail"

\* C33: while the predicate of an assertion runs the assertion holds no lock
\* of the Mailer; a delivery in progress, on the worker or on the goroutine of
\* the test, can always complete; the test goroutine inside a predicate can
\* always take its next step (of the predicate, or of the TriggerEvent call
\* the predicate made); and the assertion returns.
C33_PredicateOutsideLock ==
    /\ [](pcall.pc = "pred" => mmu = FreeMu)
    /\ [](\A w \in Workers : DeliveringWorker(w) => ENABLED WorkerCallback(w))
    /\ [](\A c \in Callers : DeliveringCaller(c) => ENABLED TriggerCallEnd(c))
    /\ [](pcall.pc = "pred" =>
            \/ ENABLED TestStep
            \/ ENABLED (\/ TriggerInvoke(1) \/ TriggerSubmit(1)
                        \/ TriggerCallEnd(1) \/ TriggerReturn(1)))
    /\ [](pcall.pc = "pred" => <>(pcall.pc = "returned"))

\* in synchronous mode an assertion whose predicate triggered its own event
\* has returned true, and the delivery the predicate caused is in the log
C33_Witness ==
    /\ ~concurrent
    /\ pcall.pc = "returned"
    /\ pcall.pred = "trigger"
    /\ pcall.event = "e1"
    /\ pcall.result
    /\ Len(mailbox["e1"]) = Len(pcall.box) + 1
====
